---- MODULE Spec2Model ----
(***************************************************************************)
(* A model of the SKIN-TWIN formulation proof assistant                    *)
(* (app/lib/proof-assistant): the verification engine's pipeline, the      *)
(* relevance realizer, the cognitive accounting system, the tensor         *)
(* operations engine and the hypergraph integration engine.                *)
(*                                                                         *)
(* Numbers are exact rationals <<n, d>> (d > 0, lowest terms); NaN, which  *)
(* JavaScript produces for 0/0 and for arithmetic on undefined, is <<0,0>>.*)
(* Strings are sequences of one-character strings, so that includes(),     *)
(* toLowerCase(), template interpolation and the parsing of the numeric    *)
(* suffix of an id are computed as the code computes them.                 *)
(***************************************************************************)
EXTENDS Integers, Sequences, FiniteSets, TLC

(***************************************************************************)
(* Numbers                                                                 *)
(***************************************************************************)
NaN == <<0, 0>>

isNaN(a) == a[2] = 0

Abs(n) == IF n < 0 THEN -n ELSE n

RECURSIVE GCD(_, _)
GCD(a, b) == IF b = 0 THEN a ELSE GCD(b, a % b)

\* n/d in lowest terms with a positive denominator; 0/0 is NaN.
Q(n, d) ==
  IF d = 0 THEN NaN
  ELSE LET g == GCD(Abs(n), Abs(d))
           s == IF d < 0 THEN -1 ELSE 1
       IN  <<(s * n) \div g, (s * d) \div g>>

Num(n) == <<n, 1>>

\* a decimal literal of the source with three places, e.g. 0.85 is Dec(850)
Dec(m) == Q(m, 1000)

Plus(a, b) ==
  IF isNaN(a) \/ isNaN(b) THEN NaN
  ELSE LET g == GCD(a[2], b[2])
       IN  Q(a[1] * (b[2] \div g) + b[1] * (a[2] \div g), (a[2] \div g) * b[2])

Neg(a) == IF isNaN(a) THEN NaN ELSE <<-a[1], a[2]>>

Minus(a, b) == Plus(a, Neg(b))

Times(a, b) ==
  IF isNaN(a) \/ isNaN(b) THEN NaN
  ELSE LET g1 == GCD(Abs(a[1]), b[2])
           g2 == GCD(Abs(b[1]), a[2])
       IN  Q((a[1] \div g1) * (b[1] \div g2), (a[2] \div g2) * (b[2] \div g1))

\* a / b; the only division by zero the modelled code performs is 0/0
Over(a, b) ==
  IF isNaN(a) \/ isNaN(b) \/ b[1] = 0 THEN NaN
  ELSE Times(a, Q(b[2], b[1]))

Sign(a) == IF a[1] > 0 THEN 1 ELSE IF a[1] < 0 THEN -1 ELSE 0

\* JavaScript's <, >, <=, >=: every comparison with NaN is false
Lt(a, b) == ~isNaN(a) /\ ~isNaN(b) /\ Sign(Minus(a, b)) < 0
Gt(a, b) == Lt(b, a)
Le(a, b) == ~isNaN(a) /\ ~isNaN(b) /\ Sign(Minus(a, b)) <= 0
Ge(a, b) == Le(b, a)

\* Math.min and Math.max: NaN when either argument is NaN
MathMin(a, b) == IF isNaN(a) \/ isNaN(b) THEN NaN ELSE IF Lt(b, a) THEN b ELSE a
MathMax(a, b) == IF isNaN(a) \/ isNaN(b) THEN NaN ELSE IF Gt(b, a) THEN b ELSE a

InUnit(a) == Ge(a, Num(0)) /\ Le(a, Num(1))

\* Math.exp to three places, at the arguments the modelled calls pass; at -3 and below
\* the value is below 0.05
MathExp(x) ==
  CASE x = Num(0) -> Num(1)
    [] x = Q(-1, 1000) -> Dec(999)
    [] x = Q(-1, 250) -> Dec(996)
    [] x = Q(1, 500) -> Dec(1002)
    [] x = Num(-1) -> Dec(368)
    [] x = Num(-2) -> Dec(135)
    [] Lt(x, Num(-3)) \/ x = Num(-3) -> Dec(49)
    [] isNaN(x) -> NaN

\* Math.log to three places, at the arguments the modelled calls pass
MathLog(x) ==
  CASE x = Num(1) -> Num(0)
    [] x = Num(2) -> Dec(693)
    [] x = Num(5) -> Dec(1609)
    [] x = Q(1, 2) -> Dec(-693)
    [] Lt(x, Num(0)) -> NaN
    [] isNaN(x) -> NaN

\* the array a map() or a comprehension builds, as a tuple
Array(f) == f \o <<>>

RECURSIVE SumSeq(_)
\* xs.reduce((sum, x) => sum + x, 0)
SumSeq(xs) == IF xs = <<>> THEN Num(0) ELSE Plus(SumSeq(SubSeq(xs, 1, Len(xs) - 1)), xs[Len(xs)])

\* the mean as the code writes it: reduce(...) / length, NaN for the empty list
Mean(xs) == Over(SumSeq(xs), Num(Len(xs)))

(***************************************************************************)
(* Strings                                                                 *)
(***************************************************************************)
Upper == <<"A","B","C","D","E","F","G","H","I","J","K","L","M","N","O","P","Q","R","S","T","U","V","W","X","Y","Z">>
Lower == <<"a","b","c","d","e","f","g","h","i","j","k","l","m","n","o","p","q","r","s","t","u","v","w","x","y","z">>

LowerChar(c) ==
  IF \E k \in 1..26 : Upper[k] = c THEN Lower[CHOOSE k \in 1..26 : Upper[k] = c] ELSE c

\* String.prototype.toLowerCase
toLowerCase(s) == Array([i \in 1..Len(s) |-> LowerChar(s[i])])

\* String.prototype.includes: n occurs in h as a contiguous substring
includes(h, n) == \E i \in 0..(Len(h) - Len(n)) : SubSeq(h, i + 1, i + Len(n)) = n

\* h.toLowerCase().includes(n.toLowerCase())
includesCI(h, n) == includes(toLowerCase(h), toLowerCase(n))

DigitChars == <<"0","1","2","3","4","5","6","7","8","9">>

isDigit(c) == \E k \in 1..10 : DigitChars[k] = c

DigitValue(c) == (CHOOSE k \in 1..10 : DigitChars[k] = c) - 1

RECURSIVE Digits(_)
\* the decimal text of a non-negative integer, as a template literal prints it
Digits(n) == IF n < 10 THEN <<DigitChars[n + 1]>> ELSE Digits(n \div 10) \o <<DigitChars[(n % 10) + 1]>>

RECURSIVE parseInt(_)
\* parseInt of a string of digits
parseInt(s) == IF s = <<>> THEN 0 ELSE 10 * parseInt(SubSeq(s, 1, Len(s) - 1)) + DigitValue(s[Len(s)])

RECURSIVE TrailingDigits(_)
TrailingDigits(s) ==
  IF s = <<>> \/ ~isDigit(s[Len(s)]) THEN <<>>
  ELSE TrailingDigits(SubSeq(s, 1, Len(s) - 1)) \o <<s[Len(s)]>>

(***************************************************************************)
(* State                                                                   *)
(***************************************************************************)
VARIABLES
  request,         \* the VerificationRequest of the call in progress
  pc,              \* the stage of verifyFormulationHypothesis the call is in
  now,             \* Date.now(), in hours
  candidates,      \* candidateSteps
  analysis,        \* relevanceAnalysis, the value realizeRelevance returned
  result,          \* the VerificationResult the call returned (Null before)
  contextHistory,  \* RelevanceRealizationSystem.contextHistory
  cognitiveState,  \* CognitiveAccountingSystem.cognitiveState
  updates,         \* the number of updateCognitiveState calls made
  proofGraphs,     \* HypergraphIntegrationEngine.proofGraphs
  nodeIndexes,     \* HypergraphIntegrationEngine.nodeIndexes.get('all')
  edgeIndexes,     \* HypergraphIntegrationEngine.edgeIndexes.get('all')
  returned,        \* the last call of the hypergraph engine, with what it returned
  operationName,   \* the operation name an executeOperation call is given
  inputs,          \* the input fields the call is given
  outcome,         \* what the call returned or threw (Null before it is made)
  theorems,        \* FormalLogicEngine._theorems
  formalCall,      \* the last call of the formal logic engine, with what it returned
  ordering,        \* a call of orderStepsLogically: its argument, locals and position
  penetration,     \* a call of modelSkinPenetration: its argument and what it returned
  weightRun,       \* CognitiveState.relevanceWeights in billionths, followed over many updates
  assistant,       \* a FormulationProofAssistant: its cognitive state, its last request and result
  verifications    \* the verifyFormulationHypothesis calls in flight on one engine, each with its locals

Null == [null |-> TRUE]

(***************************************************************************)
(* Requests.  A string field that is missing is the empty string (both are *)
(* falsy); hypothesisType and targetEffectsType say what JavaScript type   *)
(* the caller put in the field.                                            *)
(***************************************************************************)
MaxIngredients == 2
MaxEffects == 1
MaxConstraints == 1

HyaluronicHypothesis == <<"H","y","a","l","u","r","o","n","i","c"," ","a","c","i","d"," ","i","m","p","r","o","v","e","s"," ","h","y","d","r","a","t","i","o","n">>

\* a hypothesis that spells out the fact names the candidate steps use as premises
LinkedHypothesis == <<"i","n","g","r","e","d","i","e","n","t","_","R","1"," ","l","a","y","e","r","_","e","p","i","d","e","r","m","i","s"," ","s","k","i","n","_","m","o","d","e","l"," ","f","o","r","m","u","l","a","t","i","o","n","_","p","a","r","a","m","e","t","e","r","s">>

Hypotheses ==
  { [text |-> <<>>, type |-> "string"],
    [text |-> HyaluronicHypothesis, type |-> "string"],
    [text |-> LinkedHypothesis, type |-> "string"],
    [text |-> <<"4","2">>, type |-> "number"] }

IngredientPool ==
  << [id |-> <<"R","1">>, label |-> <<"H","y","a","l","u","r","o","n","i","c"," ","A","c","i","d">>],
     [id |-> <<"R","2">>, label |-> <<"N","i","a","c","i","n","a","m","i","d","e">>],
     [id |-> <<>>,  label |-> <<"G","l","y","c","e","r","i","n">>],
     [id |-> <<"R","4">>, label |-> <<>>] >>

EffectPool ==
  << [ingredientId |-> <<"R","1">>, targetLayer |-> <<"e","p","i","d","e","r","m","i","s">>, effectType |-> <<"h","y","d","r","a","t","i","o","n">>,
      confidence |-> Dec(800)],
     [ingredientId |-> <<"R","1">>, targetLayer |-> <<"e","p","i","d","e","r","m","i","s">>, effectType |-> <<"h","y","d","r","a","t","i","o","n">>,
      confidence |-> Num(-2)],
     [ingredientId |-> <<"R","1">>, targetLayer |-> <<"e","p","i","d","e","r","m","i","s">>, effectType |-> <<"h","y","d","r","a","t","i","o","n">>,
      confidence |-> Dec(400)] >>

ConstraintPool ==
  << [type |-> <<"p","h">>, parameter |-> <<"p","h">>, value |-> Dec(5500)],
     [type |-> <<>>,   parameter |-> <<"p","h">>, value |-> Dec(5500)],
     [type |-> <<"p","h">>, parameter |-> <<>>,   value |-> Dec(5500)] >>

\* the sequences over 1..Len(pool) of length at most n
SeqsUpTo(pool, n) == UNION { [1..k -> 1..Len(pool)] : k \in 0..n }

PickAll(pool, ixs) == [i \in 1..Len(ixs) |-> pool[ixs[i]]]

\* lists without repetition, in the pool's order
IngredientLists ==
  { PickAll(IngredientPool, ixs) :
      ixs \in { s \in SeqsUpTo(IngredientPool, MaxIngredients) :
                  \A i \in 1..Len(s) : \A j \in 1..Len(s) : i < j => s[i] < s[j] } }

EffectLists == { PickAll(EffectPool, ixs) : ixs \in SeqsUpTo(EffectPool, MaxEffects) }

ConstraintLists == { PickAll(ConstraintPool, ixs) : ixs \in SeqsUpTo(ConstraintPool, MaxConstraints) }

Requests ==
  { [hypothesis |-> h.text, hypothesisType |-> h.type, ingredients |-> il,
     targetEffects |-> el, targetEffectsType |-> "array", constraints |-> cl] :
      h \in Hypotheses, il \in IngredientLists, el \in EffectLists, cl \in ConstraintLists }
  \cup
  \* targetEffects holding a number: truthy and not iterable
  { [hypothesis |-> h.text, hypothesisType |-> h.type, ingredients |-> il,
     targetEffects |-> <<>>, targetEffectsType |-> "number", constraints |-> cl] :
      h \in Hypotheses, il \in IngredientLists, cl \in ConstraintLists }

\* the scenario of the specification: one ingredient, one effect on it, no constraints
ScenarioRequest ==
  [hypothesis |-> <<"H","y","a","l","u","r","o","n","i","c"," ","a","c","i","d"," ","i","m","p","r","o","v","e","s"," ","h","y","d","r","a","t","i","o","n">>, hypothesisType |-> "string",
   ingredients |-> <<[id |-> <<"R","1">>, label |-> <<"H","y","a","l","u","r","o","n","i","c"," ","A","c","i","d">>]>>,
   targetEffects |-> <<[ingredientId |-> <<"R","1">>, targetLayer |-> <<"e","p","i","d","e","r","m","i","s">>,
                        effectType |-> <<"h","y","d","r","a","t","i","o","n">>, confidence |-> Dec(800)]>>,
   targetEffectsType |-> "array",
   constraints |-> <<>>]

(***************************************************************************)
(* FormulationVerificationEngine: candidate steps                          *)
(***************************************************************************)
Us == <<"_">>

Evidence(idPrefix, t, type, source, reliability, relevance) ==
  [id |-> idPrefix \o Digits(t), type |-> type, source |-> source,
   reliability |-> reliability, relevance |-> relevance]

createAssumptionStep(req, t) ==
  [id |-> <<"a","s","s","u","m","p","t","i","o","n","_">> \o Digits(t),
   type |-> "assumption",
   statement |-> <<"A","s","s","u","m","e",":"," ">> \o req.hypothesis,
   premises |-> <<>>,
   rule |-> "initial_hypothesis",
   confidence |-> Num(1),
   evidence |-> <<Evidence(<<"e","v","i","d","e","n","c","e","_">>, t, "theoretical", "user_hypothesis", Dec(800), Num(1))>>]

createSafetyVerificationStep(ingredient, t) ==
  [id |-> <<"s","a","f","e","t","y","_">> \o ingredient.id \o Us \o Digits(t),
   type |-> "verification",
   statement |-> <<"I","n","g","r","e","d","i","e","n","t"," ">> \o ingredient.label \o <<" ","m","e","e","t","s"," ","s","a","f","e","t","y"," ","r","e","q","u","i","r","e","m","e","n","t","s">>,
   premises |-> <<<<"i","n","g","r","e","d","i","e","n","t","_">> \o ingredient.id>>,
   rule |-> "safety_verification",
   confidence |-> Dec(850),
   evidence |-> <<Evidence(<<"s","a","f","e","t","y","_","e","v","i","d","e","n","c","e","_">>, t, "experimental", "safety_database", Dec(900), Num(1))>>]

createCompatibilityStep(ing1, ing2, t) ==
  [id |-> <<"c","o","m","p","a","t","i","b","i","l","i","t","y","_">> \o ing1.id \o Us \o ing2.id \o Us \o Digits(t),
   type |-> "verification",
   statement |-> <<"I","n","g","r","e","d","i","e","n","t","s"," ">> \o ing1.label \o <<" ","a","n","d"," ">> \o ing2.label \o <<" ","a","r","e"," ","c","o","m","p","a","t","i","b","l","e">>,
   premises |-> <<<<"i","n","g","r","e","d","i","e","n","t","_">> \o ing1.id, <<"i","n","g","r","e","d","i","e","n","t","_">> \o ing2.id>>,
   rule |-> "compatibility_check",
   confidence |-> Dec(800),
   evidence |-> <<Evidence(<<"c","o","m","p","a","t","_","e","v","i","d","e","n","c","e","_">>, t, "literature", "compatibility_studies", Dec(800), Dec(900))>>]

createEffectVerificationStep(effect, t) ==
  [id |-> <<"e","f","f","e","c","t","_">> \o effect.ingredientId \o Us \o Digits(t),
   type |-> "verification",
   statement |-> effect.effectType \o <<" ","c","a","n"," ","b","e"," ","a","c","h","i","e","v","e","d"," ","i","n"," ">> \o effect.targetLayer,
   premises |-> <<<<"i","n","g","r","e","d","i","e","n","t","_">> \o effect.ingredientId, <<"l","a","y","e","r","_">> \o effect.targetLayer>>,
   rule |-> "effect_verification",
   confidence |-> effect.confidence,
   evidence |-> <<Evidence(<<"e","f","f","e","c","t","_","e","v","i","d","e","n","c","e","_">>, t, "literature", "efficacy_studies", Dec(800), Dec(900))>>]

createConstraintVerificationStep(constraint, t) ==
  [id |-> <<"c","o","n","s","t","r","a","i","n","t","_">> \o constraint.type \o Us \o Digits(t),
   type |-> "verification",
   statement |-> <<"C","o","n","s","t","r","a","i","n","t"," ">> \o constraint.type \o <<":">> \o constraint.parameter \o <<" ","i","s"," ","s","a","t","i","s","f","i","e","d">>,
   premises |-> <<<<"f","o","r","m","u","l","a","t","i","o","n","_","p","a","r","a","m","e","t","e","r","s">>>>,
   rule |-> "constraint_verification",
   confidence |-> Dec(900),
   evidence |-> <<Evidence(<<"c","o","n","s","t","r","a","i","n","t","_","e","v","i","d","e","n","c","e","_">>, t, "computational", "constraint_checker", Dec(950), Num(1))>>]

createPenetrationStep(ingredient, t) ==
  [id |-> <<"p","e","n","e","t","r","a","t","i","o","n","_">> \o ingredient.id \o Us \o Digits(t),
   type |-> "deduction",
   statement |-> ingredient.label \o <<" ","p","e","n","e","t","r","a","t","i","o","n"," ","d","e","p","t","h"," ","c","a","l","c","u","l","a","t","e","d">>,
   premises |-> <<<<"i","n","g","r","e","d","i","e","n","t","_">> \o ingredient.id, <<"s","k","i","n","_","m","o","d","e","l">>>>,
   rule |-> "penetration_modeling",
   confidence |-> Dec(750),
   evidence |-> <<Evidence(<<"p","e","n","e","t","r","a","t","i","o","n","_","e","v","i","d","e","n","c","e","_">>, t, "computational", "tensor_modeling", Dec(800), Dec(800))>>]

RECURSIVE CompatibilityPairs(_, _, _)
\* the (i, j) of the nested loops, i < j, in the loops' order
CompatibilityPairs(n, i, j) ==
  IF i > n THEN <<>>
  ELSE IF j > n THEN CompatibilityPairs(n, i + 1, i + 2)
  ELSE <<<<i, j>>>> \o CompatibilityPairs(n, i, j + 1)

generateCandidateSteps(req, t) ==
  LET ings  == req.ingredients
      pairs == CompatibilityPairs(Len(ings), 1, 2)
  IN  <<createAssumptionStep(req, t)>>
      \o [i \in 1..Len(ings) |-> createSafetyVerificationStep(ings[i], t)]
      \o [k \in 1..Len(pairs) |-> createCompatibilityStep(ings[pairs[k][1]], ings[pairs[k][2]], t)]
      \o [i \in 1..Len(req.targetEffects) |-> createEffectVerificationStep(req.targetEffects[i], t)]
      \o [i \in 1..Len(req.constraints) |-> createConstraintVerificationStep(req.constraints[i], t)]
      \o [i \in 1..Len(ings) |-> createPenetrationStep(ings[i], t)]

(***************************************************************************)
(* FormulationVerificationEngine: validation and the failure result        *)
(***************************************************************************)
NoError == "none"

\* validateRequest without its loop over the constraints
validateRequestSkippingConstraints(req) ==
  IF req.hypothesis = <<>> \/ Len(req.ingredients) = 0
  THEN "Invalid verification request: missing required fields"
  ELSE IF \E i \in 1..Len(req.ingredients) :
            req.ingredients[i].id = <<>> \/ req.ingredients[i].label = <<>>
  THEN "Invalid ingredient data: <JSON.stringify(ingredient)>"
  ELSE NoError

\* the message of the Error validateRequest throws, NoError when it returns
validateRequest(req) ==
  IF req.hypothesis = <<>> \/ Len(req.ingredients) = 0
  THEN "Invalid verification request: missing required fields"
  ELSE IF \E i \in 1..Len(req.ingredients) :
            req.ingredients[i].id = <<>> \/ req.ingredients[i].label = <<>>
  THEN "Invalid ingredient data: <JSON.stringify(ingredient)>"
  ELSE IF \E i \in 1..Len(req.constraints) :
            req.constraints[i].type = <<>> \/ req.constraints[i].parameter = <<>>
  THEN "Invalid constraint: <JSON.stringify(constraint)>"
  ELSE NoError

\* a warning string: its fixed text, and the error message or the count interpolated in it
Warning(text, error, count) == [text |-> text, error |-> error, count |-> count]

createFailureResult(hypothesis, error, t) ==
  [isValid |-> FALSE,
   confidence |-> Num(0),
   proof |-> [id |-> <<"f","a","i","l","e","d","_","p","r","o","o","f","_">> \o Digits(t),
              hypothesis |-> hypothesis, conclusion |-> <<"V","e","r","i","f","i","c","a","t","i","o","n"," ","f","a","i","l","e","d">>, steps |-> <<>>,
              validity |-> Num(0), completeness |-> Num(0), cognitiveRelevance |-> Num(0)],
   warnings |-> <<Warning("Verification failed: <error>", error, 0)>>,
   recommendations |-> <<"Review input parameters and try again">>]

(***************************************************************************)
(* RelevanceRealizationSystem                                              *)
(***************************************************************************)
\* x || 0 on a number: NaN and 0 are falsy
OrZero(x) == IF isNaN(x) THEN Num(0) ELSE x

\* a Map<string, number> built by steps.forEach(step => map.set(step.id, f(step))):
\* a later step overwrites an earlier step of the same id
ScoreMap(steps, f(_)) ==
  LET scores == Array([i \in 1..Len(steps) |-> f(steps[i])])
  IN  [id \in { steps[i].id : i \in 1..Len(steps) } |->
         scores[CHOOSE i \in 1..Len(steps) :
                  steps[i].id = id /\ \A j \in (i + 1)..Len(steps) : steps[j].id # id]]

\* the number of elements of xs that satisfy P: xs.filter(P).length
CountIf(xs, P(_)) == Cardinality({ i \in 1..Len(xs) : P(xs[i]) })

\* the alternatives of each case-insensitive regular expression, and its weight
saliencePatterns ==
  << [id |-> "ingredient_mention", weight |-> Dec(200),
      pattern |-> { <<"i","n","g","r","e","d","i","e","n","t">>, <<"c","o","m","p","o","u","n","d">>, <<"c","h","e","m","i","c","a","l">>, <<"m","o","l","e","c","u","l","e">> }],
     [id |-> "effect_mention", weight |-> Dec(250),
      pattern |-> { <<"e","f","f","e","c","t">>, <<"b","e","n","e","f","i","t">>, <<"i","m","p","r","o","v","e">>, <<"e","n","h","a","n","c","e">>, <<"r","e","d","u","c","e">>, <<"i","n","c","r","e","a","s","e">> }],
     [id |-> "safety_mention", weight |-> Dec(300),
      pattern |-> { <<"s","a","f","e">>, <<"s","a","f","e","t","y">>, <<"t","o","x","i","c">>, <<"h","a","r","m">>, <<"r","i","s","k">>, <<"d","a","n","g","e","r">> }],
     [id |-> "interaction_mention", weight |-> Dec(200),
      pattern |-> { <<"i","n","t","e","r","a","c","t">>, <<"s","y","n","e","r","g">>, <<"a","n","t","a","g","o","n">>, <<"c","o","m","p","a","t","i","b","l","e">>, <<"i","n","c","o","m","p","a","t","i","b","l","e">> }],
     [id |-> "mechanism_mention", weight |-> Dec(150),
      pattern |-> { <<"m","e","c","h","a","n","i","s","m">>, <<"p","a","t","h","w","a","y">>, <<"p","r","o","c","e","s","s">>, <<"r","e","a","c","t","i","o","n">>, <<"b","i","n","d","i","n","g">> }],
     [id |-> "skin_layer_mention", weight |-> Dec(250),
      pattern |-> { <<"e","p","i","d","e","r","m","i","s">>, <<"d","e","r","m","i","s">>, <<"s","u","b","c","u","t","a","n","e","o","u","s">>, <<"s","t","r","a","t","u","m">>, <<"b","a","r","r","i","e","r">> }],
     [id |-> "penetration_mention", weight |-> Dec(200),
      pattern |-> { <<"p","e","n","e","t","r","a","t">>, <<"a","b","s","o","r","b">>, <<"p","e","r","m","e","a","b">>, <<"t","r","a","n","s","p","o","r","t">>, <<"d","i","f","f","u","s">> }] >>

\* pattern.test(text) for /a|b|c/i
matchesPattern(text, pattern) == \E w \in pattern.pattern : includes(toLowerCase(text), w)

calculateContextualSalience(step, context) ==
  LET low == toLowerCase(step.statement)
      goal == IF includes(low, toLowerCase(context.currentGoal)) THEN Dec(300) ELSE Num(0)
      relevantIngredients ==
        CountIf(context.activeIngredients, LAMBDA ing : includes(low, toLowerCase(ing)))
      skin == IF includes(low, toLowerCase(context.skinCondition)) THEN Dec(200) ELSE Num(0)
      relevantConstraints ==
        CountIf(context.userConstraints, LAMBDA c : includes(low, toLowerCase(c)))
      salience == Plus(Plus(Plus(goal, Times(Num(relevantIngredients), Dec(100))), skin),
                       Times(Num(relevantConstraints), Dec(50)))
  IN  MathMin(salience, Dec(800))

\* activation / 1000000 for an activation kept in hours (1 h = 3600000 ms)
ActivationOverMillion(activation) == Times(activation, Q(18, 5))

RECURSIVE SumOverKeys(_, _)
\* the sum of m[k] over the keys k
SumOverKeys(keys, m) ==
  IF keys = {} THEN Num(0)
  ELSE LET k == CHOOSE x \in keys : TRUE
       IN  Plus(m[k], SumOverKeys(keys \ {k}, m))

calculateCognitiveSalience(step, cog) ==
  LET low == toLowerCase(step.statement)
      memKeys == { k \in DOMAIN cog.memoryActivation : includes(low, toLowerCase(k)) }
      relKeys == { k \in DOMAIN cog.relevanceWeights : includes(low, toLowerCase(k)) }
      salience ==
        Plus(SumOverKeys(memKeys, [k \in memKeys |->
                           MathMin(ActivationOverMillion(cog.memoryActivation[k]), Dec(200))]),
             SumOverKeys(relKeys, [k \in relKeys |-> Times(cog.relevanceWeights[k], Dec(100))]))
  IN  MathMin(salience, Dec(500))

calculateAttentionalSalience(step, cog) ==
  LET low == toLowerCase(step.statement)
      n == CountIf(cog.attentionalFocus, LAMBDA item : includes(low, toLowerCase(item)))
  IN  MathMin(Times(Num(n), Dec(150)), Dec(600))

detectSalienceOf(step, context, cog) ==
  LET matched == Array([k \in 1..Len(saliencePatterns) |->
                      IF matchesPattern(step.statement, saliencePatterns[k])
                      THEN saliencePatterns[k].weight ELSE Num(0)])
      total == Plus(Plus(Plus(SumSeq(matched), calculateContextualSalience(step, context)),
                         calculateCognitiveSalience(step, cog)),
                    calculateAttentionalSalience(step, cog))
  IN  MathMin(total, Num(1))

detectSalience(steps, context, cog) ==
  ScoreMap(steps, LAMBDA step : detectSalienceOf(step, context, cog))

\* id.match(/_(\d+)$/): the digits that end the id, when an underscore precedes them
extractTimeFromId(id) ==
  LET d == TrailingDigits(id)
  IN  IF d # <<>> /\ Len(id) > Len(d) /\ id[Len(id) - Len(d)] = "_" THEN parseInt(d) ELSE 0

\* the three coherence rules, each applied to [step, ...steps.filter(s => s.id !== step.id)]
coherenceRules(step, steps) ==
  LET others == SelectSeq(steps, LAMBDA s : s.id # step.id)
      batch  == <<step>> \o others
      has(t) == \E i \in 1..Len(batch) : batch[i].type = t
      confidences == Array([i \in 1..Len(batch) |-> batch[i].confidence])
      avgConfidence == Mean(confidences)
      variance == Mean([i \in 1..Len(batch) |->
                          Times(Minus(confidences[i], avgConfidence),
                                Minus(confidences[i], avgConfidence))])
  IN  Plus(Plus(IF has("assumption") /\ has("conclusion") THEN Dec(200) ELSE Num(0),
                IF has("verification") /\ has("conclusion") THEN Dec(150) ELSE Num(0)),
           IF Lt(variance, Dec(100)) THEN Dec(100) ELSE Num(0))

\* s.slice(0, 20)
Slice20(s) == SubSeq(s, 1, IF Len(s) < 20 THEN Len(s) ELSE 20)

calculateDependencyCoherence(step, allSteps) ==
  LET premisesSatisfied ==
        CountIf(step.premises,
                LAMBDA premise : \E i \in 1..Len(allSteps) :
                   allSteps[i].id = premise \/ includes(allSteps[i].statement, premise))
      denom == IF Len(step.premises) > 1 THEN Len(step.premises) ELSE 1
      supportsOthers ==
        CountIf(allSteps,
                LAMBDA s : (\E k \in 1..Len(s.premises) : s.premises[k] = step.id)
                           \/ includes(s.statement, Slice20(step.statement)))
  IN  Plus(Times(Q(premisesSatisfied, denom), Dec(300)),
           MathMin(Times(Num(supportsOthers), Dec(100)), Dec(200)))

calculateNarrativeCoherence(step, context) ==
  LET statement == toLowerCase(step.statement)
      flow(t, words) ==
        IF step.type = t /\ \E w \in words : includes(statement, w) THEN Dec(200) ELSE Num(0)
  IN  Plus(Plus(Plus(flow("assumption", { <<"a","s","s","u","m","e">> }),
                     flow("verification", { <<"v","e","r","i","f","y">>, <<"c","h","e","c","k">> })),
                flow("conclusion", { <<"t","h","e","r","e","f","o","r","e">> })),
           IF includes(statement, toLowerCase(context.skinCondition)) THEN Dec(100) ELSE Num(0))

calculateTemporalCoherence(step, allSteps) ==
  LET stepTime == extractTimeFromId(step.id)
      earlier == CountIf(step.premises,
                         LAMBDA premise :
                           /\ \E i \in 1..Len(allSteps) : allSteps[i].id = premise
                           /\ extractTimeFromId(premise) < stepTime)
  IN  MathMin(Plus(Dec(200), Times(Num(earlier), Dec(100))), Dec(500))

assessCoherenceOf(step, steps, context) ==
  MathMin(Plus(Plus(Plus(Plus(Dec(500), coherenceRules(step, steps)),
                         calculateDependencyCoherence(step, steps)),
                    calculateNarrativeCoherence(step, context)),
               calculateTemporalCoherence(step, steps)),
          Num(1))

assessCoherence(steps, context) ==
  ScoreMap(steps, LAMBDA step : assessCoherenceOf(step, steps, context))

\* the four elegance metrics, weighted
evaluateEleganceOf(step) ==
  LET complexity == Len(step.premises) + Len(step.evidence)
      simplicity == MathMax(Num(0), Minus(Num(1), Times(Num(complexity), Dec(100))))
      evidenceQuality ==
        IF Len(step.evidence) = 0 THEN Dec(100)
        ELSE Mean([i \in 1..Len(step.evidence) |-> step.evidence[i].reliability])
      clarity == MathMin(Num(1), Q(100, Len(step.statement)))
      score == Plus(Plus(Plus(Times(simplicity, Dec(300)), Times(step.confidence, Dec(400))),
                         Times(evidenceQuality, Dec(200))),
                    Times(clarity, Dec(100)))
  IN  MathMin(score, Num(1))

evaluateElegance(steps) == ScoreMap(steps, LAMBDA step : evaluateEleganceOf(step))

integrateRelevanceDimensions(salience, coherence, elegance) ==
  [stepId \in DOMAIN salience |->
     Plus(Plus(Times(OrZero(salience[stepId]), Dec(400)),
               Times(OrZero(coherence[stepId]), Dec(400))),
          Times(OrZero(elegance[stepId]), Dec(200)))]

RECURSIVE SortedIndices(_, _)
\* the indices 1..n, highest score first, equal scores in index order
SortedIndices(scores, n) ==
  IF n = 0 THEN <<>>
  ELSE LET rest == SortedIndices(scores, n - 1)
           \* n goes after every index that does not score lower than it
           k    == CHOOSE m \in 0..Len(rest) :
                     /\ \A i \in 1..m : ~Lt(scores[rest[i]], scores[n])
                     /\ (m < Len(rest) => Lt(scores[rest[m + 1]], scores[n]))
       IN  SubSeq(rest, 1, k) \o <<n>> \o SubSeq(rest, k + 1, Len(rest))

\* items.sort((a, b) => score(b) - score(a)), scores[i] the score of items[i]: the
\* sort is stable
SortDescending(items, scores) ==
  LET order == SortedIndices(scores, Len(items))
  IN  Array([i \in 1..Len(items) |-> items[order[i]]])

\* contextHistory after updateContextHistory(context)
maxHistorySize == 10

updateContextHistory(history, context) ==
  LET pushed == Append(history, context)
  IN  IF Len(pushed) > maxHistorySize THEN Tail(pushed) ELSE pushed

\* the value realizeRelevance returns (contextHistory is updated by the caller's action)
realizeRelevance(candidateSteps, context, cog) ==
  LET salienceScores == detectSalience(candidateSteps, context, cog)
      coherenceScores == assessCoherence(candidateSteps, context)
      eleganceScores == evaluateElegance(candidateSteps)
      overallRelevance ==
        integrateRelevanceDimensions(salienceScores, coherenceScores, eleganceScores)
      kept == SelectSeq(candidateSteps, LAMBDA step : Gt(overallRelevance[step.id], Dec(300)))
  IN  [relevantSteps |->
         SortDescending(kept, Array([i \in 1..Len(kept) |-> overallRelevance[kept[i].id]])),
       salienceScores |-> salienceScores,
       coherenceScores |-> coherenceScores,
       eleganceScores |-> eleganceScores,
       overallRelevance |-> overallRelevance]

(***************************************************************************)
(* FormulationVerificationEngine: building and judging the proof           *)
(***************************************************************************)
createRelevanceContext(req) ==
  LET withParameter(p) == { i \in 1..Len(req.constraints) : req.constraints[i].parameter = p }
      \* constraints.find(c => c.parameter === p): the first one
      found(p) == req.constraints[CHOOSE i \in withParameter(p) : \A j \in withParameter(p) : i <= j]
  IN  [currentGoal |-> req.hypothesis,
       currentGoalType |-> req.hypothesisType,
       activeIngredients |-> [i \in 1..Len(req.ingredients) |-> req.ingredients[i].id],
       skinCondition |->
         IF Len(req.targetEffects) > 0 /\ req.targetEffects[1].targetLayer # <<>>
         THEN req.targetEffects[1].targetLayer ELSE <<"e","p","i","d","e","r","m","i","s">>,
       userConstraints |->
         [i \in 1..Len(req.constraints) |->
            req.constraints[i].type \o <<":">> \o req.constraints[i].parameter],
       environmentalFactors |->
         [ph |-> IF withParameter(<<"p","h">>) # {} THEN found(<<"p","h">>).value ELSE Num(7),
          temperature |-> IF withParameter(<<"t","e","m","p","e","r","a","t","u","r","e">>) # {}
                          THEN found(<<"t","e","m","p","e","r","a","t","u","r","e">>).value ELSE Num(25)]]

\* whether every premise of step is the id of a processed step or occurs in the
\* statement of an ordered step
canAdd(step, ordered, processed) ==
  \A k \in 1..Len(step.premises) :
     \/ step.premises[k] \in processed
     \/ \E i \in 1..Len(ordered) : includes(ordered[i].statement, step.premises[k])

RECURSIVE OrderPass(_, _, _)
\* one run of the for loop over steps from index i on; st = [ordered, processed, added]
OrderPass(steps, i, st) ==
  IF i > Len(steps) THEN st
  ELSE LET step == steps[i]
       IN  IF step.id \notin st.processed /\ step.type # "conclusion"
              /\ canAdd(step, st.ordered, st.processed)
           THEN OrderPass(steps, i + 1,
                          [ordered |-> Append(st.ordered, step),
                           processed |-> st.processed \cup {step.id},
                           added |-> TRUE])
           ELSE OrderPass(steps, i + 1, st)

RECURSIVE OrderLoop(_, _)
\* while (added && processed.size < steps.length) { added = false; for ... }
OrderLoop(steps, st) ==
  IF st.added /\ Cardinality(st.processed) < Len(steps)
  THEN OrderLoop(steps, OrderPass(steps, 1, [st EXCEPT !.added = FALSE]))
  ELSE st

\* orderStepsLogically that appends the other steps without looking at their premises
orderStepsAsGiven(steps) ==
  SelectSeq(steps, LAMBDA s : s.type = "assumption")
  \o SelectSeq(steps, LAMBDA s : s.type \notin {"assumption", "conclusion"})

orderStepsLogically(steps) ==
  LET assumptions == SelectSeq(steps, LAMBDA s : s.type = "assumption")
  IN  OrderLoop(steps, [ordered |-> assumptions,
                        processed |-> { assumptions[i].id : i \in 1..Len(assumptions) },
                        added |-> TRUE]).ordered

Confidences(steps) == Array([i \in 1..Len(steps) |-> steps[i].confidence])

\* a conclusion that counts a mean of 0.7 itself as support
generateConclusionStepFromThreshold(steps, req, t) ==
  LET avgConfidence == Mean(Confidences(steps))
  IN  [id |-> <<"c","o","n","c","l","u","s","i","o","n","_">> \o Digits(t),
       type |-> "conclusion",
       statement |->
         IF Ge(avgConfidence, Dec(700))
         THEN <<"T","h","e"," ","h","y","p","o","t","h","e","s","i","s"," ","\"">> \o req.hypothesis \o <<"\""," ","i","s"," ","s","u","p","p","o","r","t","e","d"," ","b","y"," ","t","h","e"," ","e","v","i","d","e","n","c","e">>
         ELSE <<"T","h","e"," ","h","y","p","o","t","h","e","s","i","s"," ","\"">> \o req.hypothesis \o <<"\""," ","r","e","q","u","i","r","e","s"," ","f","u","r","t","h","e","r"," ","i","n","v","e","s","t","i","g","a","t","i","o","n">>,
       premises |-> [i \in 1..Len(steps) |-> steps[i].id],
       rule |-> "logical_synthesis",
       confidence |-> avgConfidence,
       evidence |-> <<>>]

generateConclusionStep(steps, req, t) ==
  LET avgConfidence == Mean(Confidences(steps))
  IN  [id |-> <<"c","o","n","c","l","u","s","i","o","n","_">> \o Digits(t),
       type |-> "conclusion",
       statement |->
         IF Gt(avgConfidence, Dec(700))
         THEN <<"T","h","e"," ","h","y","p","o","t","h","e","s","i","s"," ","\"">> \o req.hypothesis \o <<"\""," ","i","s"," ","s","u","p","p","o","r","t","e","d"," ","b","y"," ","t","h","e"," ","e","v","i","d","e","n","c","e">>
         ELSE <<"T","h","e"," ","h","y","p","o","t","h","e","s","i","s"," ","\"">> \o req.hypothesis \o <<"\""," ","r","e","q","u","i","r","e","s"," ","f","u","r","t","h","e","r"," ","i","n","v","e","s","t","i","g","a","t","i","o","n">>,
       premises |-> [i \in 1..Len(steps) |-> steps[i].id],
       rule |-> "logical_synthesis",
       confidence |-> avgConfidence,
       evidence |-> <<>>]

\* a validity that is the confidence of the weakest step instead of the mean
RECURSIVE weakestConfidence(_, _)
weakestConfidence(xs, n) ==
  IF n = 1 THEN xs[1] ELSE MathMin(weakestConfidence(xs, n - 1), xs[n])

calculateProofValidityAsWeakest(steps) == weakestConfidence(Confidences(steps), Len(steps))

calculateProofValidity(steps) == Mean(Confidences(steps))

calculateProofCompleteness(steps, req) ==
  LET requiredTypes == <<"assumption", "verification">>
                       \o (IF Len(req.targetEffects) > 0 THEN <<"deduction">> ELSE <<>>)
      presentTypes == { steps[i].type : i \in 1..Len(steps) }
      coverage == CountIf(requiredTypes, LAMBDA type : type \in presentTypes)
  IN  Q(coverage, Len(requiredTypes))

calculateCognitiveRelevance(steps) ==
  Mean([i \in 1..Len(steps) |->
          IF Len(steps[i].evidence) = 0 THEN Dec(100)
          ELSE Mean([k \in 1..Len(steps[i].evidence) |-> steps[i].evidence[k].relevance])])

buildFormalProof(steps, req, t) ==
  LET ordered == orderStepsLogically(steps)
      conclusion == generateConclusionStep(ordered, req, t)
      orderedSteps == Append(ordered, conclusion)
  IN  [id |-> <<"p","r","o","o","f","_">> \o Digits(t),
       hypothesis |-> req.hypothesis,
       conclusion |-> conclusion.statement,
       steps |-> orderedSteps,
       validity |-> calculateProofValidity(orderedSteps),
       completeness |-> calculateProofCompleteness(orderedSteps, req),
       cognitiveRelevance |-> calculateCognitiveRelevance(orderedSteps)]

\* a validation that also turns isValid false when the proof has gaps
validateProofSoundnessFailingOnGaps(proof) ==
  LET gaps == Lt(proof.completeness, Dec(700))
      lowConfidenceSteps == CountIf(proof.steps, LAMBDA s : Lt(s.confidence, Dec(500)))
      low == lowConfidenceSteps > 0
      invalid == Lt(proof.validity, Dec(600))
      c1 == IF gaps THEN Times(proof.validity, Dec(800)) ELSE proof.validity
      c2 == IF low THEN Times(c1, Dec(900)) ELSE c1
  IN  [isValid |-> ~invalid /\ ~gaps,
       confidence |-> MathMin(c2, Num(1)),
       warnings |->
         (IF gaps
          THEN <<Warning("Proof may have logical gaps - consider additional verification steps",
                         NoError, 0)>>
          ELSE <<>>)
         \o (IF low
             THEN <<Warning("<count> steps have low confidence - additional evidence recommended",
                            NoError, lowConfidenceSteps)>>
             ELSE <<>>)
         \o (IF invalid
             THEN <<Warning("Proof validity is below acceptable threshold", NoError, 0)>>
             ELSE <<>>)]

validateProofSoundness(proof) ==
  LET gaps == Lt(proof.completeness, Dec(700))
      lowConfidenceSteps == CountIf(proof.steps, LAMBDA s : Lt(s.confidence, Dec(500)))
      low == lowConfidenceSteps > 0
      invalid == Lt(proof.validity, Dec(600))
      c1 == IF gaps THEN Times(proof.validity, Dec(800)) ELSE proof.validity
      c2 == IF low THEN Times(c1, Dec(900)) ELSE c1
  IN  [isValid |-> ~invalid,
       confidence |-> MathMin(c2, Num(1)),
       warnings |->
         (IF gaps
          THEN <<Warning("Proof may have logical gaps - consider additional verification steps",
                         NoError, 0)>>
          ELSE <<>>)
         \o (IF low
             THEN <<Warning("<count> steps have low confidence - additional evidence recommended",
                            NoError, lowConfidenceSteps)>>
             ELSE <<>>)
         \o (IF invalid
             THEN <<Warning("Proof validity is below acceptable threshold", NoError, 0)>>
             ELSE <<>>)]

\* the three template alternatives, in the order they are pushed
generateAlternativeFormulations(req) ==
  << [ingredients |-> req.ingredients,
      reasoning |-> "Reduced concentration of high-risk ingredients",
      confidence |-> Dec(700)],
     [ingredients |-> req.ingredients,
      reasoning |-> "Added penetration enhancers",
      confidence |-> Dec(600)],
     [ingredients |-> SubSeq(req.ingredients, 1,
                             IF Len(req.ingredients) < 3 THEN Len(req.ingredients) ELSE 3),
      reasoning |-> "Simplified ingredient list",
      confidence |-> Dec(800)] >>

generateRecommendations(proof, req) ==
  LET safetySteps == SelectSeq(proof.steps,
                               LAMBDA s : includes(s.statement, <<"s","a","f","e","t","y">>)
                                          \/ includes(s.statement, <<"r","i","s","k">>))
  IN  [suggestions |->
         (IF Lt(proof.validity, Dec(800))
          THEN <<"Consider adding more supporting evidence for ingredient interactions">>
          ELSE <<>>)
         \o (IF Lt(proof.completeness, Dec(800))
             THEN <<"Additional verification steps may strengthen the proof">>
             ELSE <<>>)
         \o (IF \E i \in 1..Len(safetySteps) : Lt(safetySteps[i].confidence, Dec(700))
             THEN <<"Review safety profiles of ingredients with lower confidence scores">>
             ELSE <<>>),
       alternatives |->
         IF Lt(proof.validity, Dec(700)) THEN generateAlternativeFormulations(req) ELSE <<>>]

(***************************************************************************)
(* The parts of the state a specification leaves alone                     *)
(***************************************************************************)
graphVars == <<proofGraphs, nodeIndexes, edgeIndexes, returned>>

\* a new HypergraphIntegrationEngine, on which nothing has been called
GraphIdle ==
  /\ proofGraphs = <<>>
  /\ nodeIndexes = {}
  /\ edgeIndexes = {}
  /\ returned = Null

tensorVars == <<operationName, inputs, outcome>>

\* no executeOperation call is made
TensorIdle ==
  /\ operationName = "none"
  /\ inputs = <<>>
  /\ outcome = Null

formalVars == <<theorems, formalCall>>

\* a new FormalLogicEngine, on which nothing has been called
FormalIdle ==
  /\ theorems = <<>>
  /\ formalCall = Null

orderVars == <<ordering>>

\* no orderStepsLogically call is followed step by step
OrderIdle == ordering = Null

penetrationVars == <<penetration>>

\* no modelSkinPenetration call is made
PenetrationIdle == penetration = Null

weightVars == <<weightRun>>

\* no long run of updates is followed
WeightsIdle == weightRun = Null

assistantVars == <<assistant>>

\* no core assistant is constructed
AssistantIdle == assistant = Null

callVars == <<verifications>>

\* no two calls are followed on one engine
CallsIdle == verifications = Null

(***************************************************************************)
(* CognitiveAccountingSystem: the state a new instance holds               *)
(***************************************************************************)
EmptyMap == [k \in {} |-> Num(0)]

initializeCognitiveState ==
  [relevanceWeights |-> EmptyMap,
   attentionalFocus |-> <<>>,
   memoryActivation |-> EmptyMap,
   uncertaintyLevels |-> EmptyMap]

\* getCognitiveState(): a shallow copy, the same maps and list
getCognitiveState(cog) == cog

(***************************************************************************)
(* verifyFormulationHypothesis, one action for each stage of the call.     *)
(* pc is the stage the call is in; Validated and Failed are its two ends.  *)
(***************************************************************************)
StartTime == 1000

\* the stages of a call in progress, and the two it ends in
Running == {"Validating", "Generating", "Realizing", "Deriving"}

Ended == {"Validated", "Failed"}

NoAnalysis ==
  [relevantSteps |-> <<>>, salienceScores |-> EmptyMap, coherenceScores |-> EmptyMap,
   eleganceScores |-> EmptyMap, overallRelevance |-> EmptyMap]

\* one ingredient and two target effects on it, of confidence 0.8 and 0.4, under a
\* hypothesis that holds the premises of the effect steps
TwoEffectsRequest ==
  [ScenarioRequest EXCEPT !.hypothesis = LinkedHypothesis,
                          !.targetEffects = <<EffectPool[1], EffectPool[3]>>]

\* one ingredient and two constraints of one type, under a hypothesis that holds the
\* premise of the constraint steps
TwoConstraintsRequest ==
  [ScenarioRequest EXCEPT !.hypothesis = <<"f","o","r","m","u","l","a","t","i","o","n","_","p","a","r","a","m","e","t","e","r","s"," ","a","r","e"," ","m","e","t">>,
                          !.constraints = <<ConstraintPool[1],
                                            [ConstraintPool[1] EXCEPT !.value = Num(7)]>>]

\* requests whose candidate steps share an id when they are created in one clock tick
SharedIdRequests == { TwoEffectsRequest, TwoConstraintsRequest }

EngineInit ==
  /\ request \in Requests \cup SharedIdRequests
  /\ pc = "Validating"
  /\ now = StartTime
  /\ candidates = <<>>
  /\ analysis = NoAnalysis
  /\ result = Null
  /\ contextHistory = <<>>
  /\ cognitiveState = initializeCognitiveState
  /\ updates = 0
  /\ GraphIdle
  /\ TensorIdle
  /\ FormalIdle
  /\ OrderIdle
  /\ PenetrationIdle
  /\ WeightsIdle
  /\ AssistantIdle
  /\ CallsIdle

\* a catch block that rethrows: the call ends without a result
FailRethrowing(error) ==
  /\ pc' = "Failed"
  /\ result' = Null

\* the catch block: the call returns the failure result
Fail(error) ==
  /\ pc' = "Failed"
  /\ result' = createFailureResult(request.hypothesis, error, now)

\* a call that records the context of the request before it validates the request
ValidateAfterRecording ==
  /\ pc = "Validating"
  /\ contextHistory' = updateContextHistory(contextHistory, createRelevanceContext(request))
  /\ LET error == validateRequest(request)
     IN  IF error = NoError
         THEN pc' = "Generating" /\ UNCHANGED result
         ELSE Fail(error)
  /\ UNCHANGED <<request, now, candidates, analysis, cognitiveState, updates>>
  /\ UNCHANGED <<graphVars, tensorVars, formalVars, orderVars, penetrationVars, weightVars, assistantVars, callVars>>

\* Phase 1: validateRequest
Validate ==
  /\ pc = "Validating"
  /\ LET error == validateRequest(request)
     IN  IF error = NoError
         THEN pc' = "Generating" /\ UNCHANGED result
         ELSE Fail(error)
  /\ UNCHANGED <<request, now, candidates, analysis, contextHistory, cognitiveState, updates>>
  /\ UNCHANGED <<graphVars, tensorVars, formalVars, orderVars, penetrationVars, weightVars, assistantVars, callVars>>

\* Phase 2: generateCandidateSteps; for...of over a targetEffects that is not iterable throws
Generate ==
  /\ pc = "Generating"
  /\ IF request.targetEffectsType = "array"
     THEN /\ candidates' = generateCandidateSteps(request, now)
          /\ pc' = "Realizing"
          /\ UNCHANGED result
     ELSE /\ Fail("request.targetEffects is not iterable")
          /\ UNCHANGED candidates
  /\ UNCHANGED <<request, now, analysis, contextHistory, cognitiveState, updates>>
  /\ UNCHANGED <<graphVars, tensorVars, formalVars, orderVars, penetrationVars, weightVars, assistantVars, callVars>>

\* Phase 3: realizeRelevance; it records the context, then scores the candidates, and
\* toLowerCase on a goal that is not a string throws while the first candidate is scored
Realize ==
  /\ pc = "Realizing"
  /\ LET context == createRelevanceContext(request)
     IN  /\ contextHistory' = updateContextHistory(contextHistory, context)
         /\ IF request.hypothesisType = "string"
            THEN /\ analysis' = realizeRelevance(candidates, context,
                                                 getCognitiveState(cognitiveState))
                 /\ pc' = "Deriving"
                 /\ UNCHANGED result
            ELSE /\ Fail("context.currentGoal.toLowerCase is not a function")
                 /\ UNCHANGED analysis
  /\ UNCHANGED <<request, now, candidates, cognitiveState, updates>>
  /\ UNCHANGED <<graphVars, tensorVars, formalVars, orderVars, penetrationVars, weightVars, assistantVars, callVars>>

\* Phases 4 to 6: buildFormalProof, validateProofSoundness, generateRecommendations;
\* the clock may have moved on since the candidates were created
Derive ==
  /\ pc = "Deriving"
  /\ \E t \in {now, now + 1} :
       LET proof == buildFormalProof(analysis.relevantSteps, request, t)
           validation == validateProofSoundness(proof)
           recommendations == generateRecommendations(proof, request)
       IN  /\ now' = t
           /\ result' = [isValid |-> validation.isValid,
                         confidence |-> validation.confidence,
                         proof |-> proof,
                         warnings |-> validation.warnings,
                         recommendations |-> recommendations.suggestions,
                         alternativeFormulations |-> recommendations.alternatives]
           /\ pc' = "Validated"
  /\ UNCHANGED <<request, candidates, analysis, contextHistory, cognitiveState, updates>>
  /\ UNCHANGED <<graphVars, tensorVars, formalVars, orderVars, penetrationVars, weightVars, assistantVars, callVars>>

(***************************************************************************)
(* CognitiveAccountingSystem.updateCognitiveState                          *)
(***************************************************************************)
relevanceThreshold == Dec(500)

attentionCapacity == 7

memoryDecayRate == Dec(100)

\* map.get(k), NaN standing for undefined
MapGet(m, k) == IF k \in DOMAIN m THEN m[k] ELSE NaN

\* the map after map.set(k, v)
MapSet(m, k, v) == [x \in DOMAIN m \cup {k} |-> IF x = k THEN v ELSE m[x]]

RECURSIVE boostedWeights(_, _, _)
\* relevanceWeights after the forEach over the first n active ingredients
boostedWeights(weights, context, n) ==
  IF n = 0 THEN weights
  ELSE LET w == boostedWeights(weights, context, n - 1)
           ingredientId == context.activeIngredients[n]
           currentWeight == OrZero(MapGet(w, ingredientId))
           goalRelevance ==
             IF includes(toLowerCase(context.currentGoal), toLowerCase(ingredientId))
             THEN Dec(200) ELSE Dec(100)
       IN  MapSet(w, ingredientId, Plus(currentWeight, goalRelevance))

updateRelevanceWeights(cog, context) ==
  LET w == boostedWeights(cog.relevanceWeights, context, Len(context.activeIngredients))
      decayed(k) == Times(w[k], Minus(Num(1), memoryDecayRate))
  IN  [cog EXCEPT !.relevanceWeights =
         [k \in { x \in DOMAIN w : ~Lt(decayed(x), Dec(10)) } |-> decayed(k)]]

\* a || 0.1 on a number
OrTenth(x) == IF isNaN(x) \/ x = Num(0) THEN Dec(100) ELSE x

\* updateAttentionalFocus without its slice(0, attentionCapacity)
updateAttentionalFocusUnsliced(cog, context) ==
  LET candidateFoci ==
        SelectSeq(<<context.currentGoal>> \o context.activeIngredients
                    \o <<context.skinCondition>> \o context.userConstraints,
                  LAMBDA focus : focus # <<>>)
      scores == Array([i \in 1..Len(candidateFoci) |->
                         OrTenth(MapGet(cog.relevanceWeights, candidateFoci[i]))])
  IN  [cog EXCEPT !.attentionalFocus = SortDescending(candidateFoci, scores)]

updateAttentionalFocus(cog, context) ==
  LET candidateFoci ==
        SelectSeq(<<context.currentGoal>> \o context.activeIngredients
                    \o <<context.skinCondition>> \o context.userConstraints,
                  LAMBDA focus : focus # <<>>)
      scores == Array([i \in 1..Len(candidateFoci) |->
                         OrTenth(MapGet(cog.relevanceWeights, candidateFoci[i]))])
      sorted == SortDescending(candidateFoci, scores)
  IN  [cog EXCEPT !.attentionalFocus =
         SubSeq(sorted, 1, IF Len(sorted) < attentionCapacity THEN Len(sorted)
                           ELSE attentionCapacity)]

RECURSIVE activatedMemory(_, _, _, _)
\* memoryActivation after the forEach over the first n active ingredients
activatedMemory(memory, context, n, currentTime) ==
  IF n = 0 THEN memory
  ELSE MapSet(activatedMemory(memory, context, n - 1, currentTime),
              <<"i","n","g","r","e","d","i","e","n","t","_">> \o context.activeIngredients[n], currentTime)

updateMemoryActivation(cog, context, t) ==
  LET currentTime == Num(t)
      m == MapSet(MapSet(activatedMemory(cog.memoryActivation, context,
                                         Len(context.activeIngredients), currentTime),
                         <<"c","u","r","r","e","n","t","_","g","o","a","l">>, currentTime),
                  <<"s","k","i","n","_","c","o","n","d","i","t","i","o","n">>, currentTime)
      \* the clock counts hours, so age / (1000 * 60 * 60) is the age
      decayFactor(k) == MathExp(Neg(Minus(currentTime, m[k])))
  IN  [cog EXCEPT !.memoryActivation =
         [k \in { x \in DOMAIN m : ~Lt(decayFactor(x), Dec(100)) } |->
            Times(m[k], decayFactor(k))]]

updateUncertaintyLevels(cog, context) ==
  LET totalConstraints == Len(context.userConstraints)
      environmentalFactors == Cardinality(DOMAIN context.environmentalFactors)
      complexityUncertainty ==
        MathMin(Q(Len(context.activeIngredients) * totalConstraints, 100), Dec(800))
      informationUncertainty ==
        MathMax(Dec(100), Minus(Num(1), Q(environmentalFactors, 10)))
  IN  [cog EXCEPT !.uncertaintyLevels =
         MapSet(MapSet(MapSet(cog.uncertaintyLevels,
                              <<"c","o","m","p","l","e","x","i","t","y">>, complexityUncertainty),
                       <<"i","n","f","o","r","m","a","t","i","o","n">>, informationUncertainty),
                <<"o","v","e","r","a","l","l">>,
                Over(Plus(complexityUncertainty, informationUncertainty), Num(2)))]

\* cognitiveState after updateCognitiveState(context) at time t
updateCognitiveState(cog, context, t) ==
  updateUncertaintyLevels(
    updateMemoryActivation(
      updateAttentionalFocus(updateRelevanceWeights(cog, context), context),
      context, t),
    context)

(***************************************************************************)
(* The contexts updateCognitiveState is called with                        *)
(***************************************************************************)
MaxActiveIngredients == 4

MaxUserConstraints == 3

MaxUpdates == 2

\* the hours that pass between two calls
ElapsedHours == {0, 1, 3}

IngredientId(i) == <<"R">> \o Digits(i)

UserConstraint(i) == <<"l","i","m","i","t",":">> \o Digits(i)

\* a goal that names ingredient R1, and one that names none
ContextGoals == { <<"I","n","g","r","e","d","i","e","n","t"," ","R","1"," ","h","y","d","r","a","t","e","s">>, HyaluronicHypothesis }

\* no ingredient, the second of the pool alone, and the whole pool
ActiveIngredientLists ==
  { <<>>, <<IngredientId(2)>>, [i \in 1..MaxActiveIngredients |-> IngredientId(i)] }

UserConstraintLists ==
  { [i \in 1..n |-> UserConstraint(i)] : n \in {0, MaxUserConstraints} }

Contexts ==
  { [currentGoal |-> goal, currentGoalType |-> "string", activeIngredients |-> ings,
     skinCondition |-> skin, userConstraints |-> cons,
     environmentalFactors |-> [ph |-> Num(7), temperature |-> Num(25)]] :
      goal \in ContextGoals, ings \in ActiveIngredientLists,
      skin \in { <<"e","p","i","d","e","r","m","i","s">>, <<>> }, cons \in UserConstraintLists }

\* no verification call is in progress
EngineIdle ==
  /\ request = Null
  /\ pc = "Idle"
  /\ candidates = <<>>
  /\ analysis = NoAnalysis
  /\ result = Null
  /\ contextHistory = <<>>

CognitiveInit ==
  /\ EngineIdle
  /\ now = StartTime
  /\ cognitiveState = initializeCognitiveState
  /\ updates = 0
  /\ GraphIdle
  /\ TensorIdle
  /\ FormalIdle
  /\ OrderIdle
  /\ PenetrationIdle
  /\ WeightsIdle
  /\ AssistantIdle
  /\ CallsIdle

\* one call of updateCognitiveState(context), some hours after the call before
UpdateCognitiveState ==
  /\ updates < MaxUpdates
  /\ \E context \in Contexts, elapsed \in ElapsedHours :
       /\ now' = now + elapsed
       /\ cognitiveState' = updateCognitiveState(cognitiveState, context, now + elapsed)
  /\ updates' = updates + 1
  /\ UNCHANGED <<request, pc, candidates, analysis, result, contextHistory>>
  /\ UNCHANGED <<graphVars, tensorVars, formalVars, orderVars, penetrationVars, weightVars, assistantVars, callVars>>

(***************************************************************************)
(* HypergraphIntegrationEngine: nodes and hyperedges                       *)
(***************************************************************************)
RECURSIVE Flatten(_)
\* the concatenation of a list of lists, as nested for loops push their elements
Flatten(lists) == IF lists = <<>> THEN <<>> ELSE Head(lists) \o Flatten(Tail(lists))

mapStepTypeToNodeType(stepType) ==
  CASE stepType \in {"assumption", "verification"} -> "constraint"
    [] stepType = "deduction" -> "interaction"
    [] stepType = "conclusion" -> "effect"
    [] OTHER -> "evidence"

mapInteractionType(interactionType) ==
  CASE interactionType = "synergistic" -> "enhancement"
    [] interactionType = "antagonistic" -> "inhibition"
    [] interactionType = "neutral" -> "correlation"
    [] OTHER -> "dependency"

mapEvidenceLevel(evidenceLevel) ==
  CASE evidenceLevel = "clinical" -> Dec(950)
    [] evidenceLevel = "in-vivo" -> Dec(850)
    [] evidenceLevel = "in-vitro" -> Dec(750)
    [] evidenceLevel = "theoretical" -> Dec(500)
    [] OTHER -> Dec(300)

calculateIngredientRelevance(ingredient) ==
  LET safetyScore == IF ingredient.safety_rating = "high" THEN Dec(900)
                     ELSE IF ingredient.safety_rating = "medium" THEN Dec(700)
                     ELSE Dec(500)
      functionScore == MathMin(Q(Len(ingredient.functions), 5), Num(1))
  IN  Over(Plus(safetyScore, functionScore), Num(2))

createProofNodes(steps, ingredients) ==
  Array([i \in 1..Len(steps) |->
     [id |-> steps[i].id,
      type |-> mapStepTypeToNodeType(steps[i].type),
      properties |-> [statement |-> steps[i].statement,
                      confidence |-> steps[i].confidence,
                      rule |-> steps[i].rule,
                      evidence_count |-> Len(steps[i].evidence)],
      relevanceScore |-> steps[i].confidence]])
  \o Array([i \in 1..Len(ingredients) |->
     [id |-> <<"i","n","g","r","e","d","i","e","n","t","_">> \o ingredients[i].id,
      type |-> "ingredient",
      properties |-> [label |-> ingredients[i].label,
                      safety_rating |-> ingredients[i].safety_rating],
      relevanceScore |-> calculateIngredientRelevance(ingredients[i])]])
  \o Flatten([i \in 1..Len(steps) |->
       [k \in 1..Len(steps[i].evidence) |->
          [id |-> steps[i].evidence[k].id,
           type |-> "evidence",
           properties |-> [type |-> steps[i].evidence[k].type,
                           source |-> steps[i].evidence[k].source,
                           reliability |-> steps[i].evidence[k].reliability,
                           relevance |-> steps[i].evidence[k].relevance],
           relevanceScore |-> steps[i].evidence[k].relevance]]])

createProofHyperedges(steps, interactions, t) ==
  Flatten([i \in 1..Len(steps) |->
     (IF Len(steps[i].premises) > 0
      THEN <<[id |-> <<"d","e","p","e","n","d","e","n","c","y","_">> \o steps[i].id,
              nodes |-> Append(steps[i].premises, steps[i].id),
              type |-> "dependency",
              weight |-> steps[i].confidence,
              confidence |-> steps[i].confidence,
              evidence |-> steps[i].evidence]>>
      ELSE <<>>)
     \o [k \in 1..Len(steps[i].evidence) |->
           [id |-> <<"s","u","p","p","o","r","t","s","_">> \o steps[i].id \o Us \o steps[i].evidence[k].id,
            nodes |-> <<steps[i].evidence[k].id, steps[i].id>>,
            type |-> "enhancement",
            weight |-> steps[i].evidence[k].reliability,
            confidence |-> steps[i].evidence[k].reliability,
            evidence |-> <<steps[i].evidence[k]>>]]])
  \o Array([i \in 1..Len(interactions) |->
     [id |-> <<"i","n","t","e","r","a","c","t","i","o","n","_">> \o interactions[i].source \o Us \o interactions[i].target,
      nodes |-> <<<<"i","n","g","r","e","d","i","e","n","t","_">> \o interactions[i].source,
                  <<"i","n","g","r","e","d","i","e","n","t","_">> \o interactions[i].target>>,
      type |-> mapInteractionType(interactions[i].type),
      weight |-> interactions[i].confidence,
      confidence |-> interactions[i].confidence,
      evidence |-> <<[id |-> <<"i","n","t","e","r","a","c","t","i","o","n","_","e","v","i","d","e","n","c","e","_">> \o Digits(t),
                      type |-> "literature",
                      source |-> interactions[i].mechanism,
                      reliability |-> mapEvidenceLevel(interactions[i].evidenceLevel),
                      relevance |-> interactions[i].confidence]>>]])

createVesselNodes(vesselData) ==
  Array([i \in 1..Len(vesselData.ingredients) |->
     [id |-> <<"v","e","s","s","e","l","_","i","n","g","r","e","d","i","e","n","t","_">> \o vesselData.ingredients[i].id,
      type |-> "ingredient",
      properties |-> [label |-> vesselData.ingredients[i].label,
                      safety_rating |-> vesselData.ingredients[i].safety_rating,
                      source |-> "vessel_database"],
      relevanceScore |-> calculateIngredientRelevance(vesselData.ingredients[i])]])
  \o Array([i \in 1..Len(vesselData.products) |->
     [id |-> <<"v","e","s","s","e","l","_","p","r","o","d","u","c","t","_">> \o vesselData.products[i].id,
      type |-> "effect",
      properties |-> [label |-> vesselData.products[i].label,
                      complexity_score |-> vesselData.products[i].complexity_score,
                      source |-> "vessel_database"],
      relevanceScore |-> Over(vesselData.products[i].complexity_score, Num(100))]])

vesselEdge(prefix, ingredient, other, type, confidence, relevance, source, t) ==
  [id |-> prefix \o ingredient.id \o Us \o other,
   nodes |-> <<<<"v","e","s","s","e","l","_","i","n","g","r","e","d","i","e","n","t","_">> \o ingredient.id, <<"v","e","s","s","e","l","_","i","n","g","r","e","d","i","e","n","t","_">> \o other>>,
   type |-> type,
   weight |-> confidence,
   confidence |-> confidence,
   evidence |-> <<[id |-> prefix \o <<"e","v","i","d","e","n","c","e","_">> \o Digits(t),
                   type |-> "experimental",
                   source |-> source,
                   reliability |-> confidence,
                   relevance |-> relevance]>>]

createVesselEdges(vesselData, t) ==
  Flatten([i \in 1..Len(vesselData.ingredients) |->
     LET ingredient == vesselData.ingredients[i]
     IN  [k \in 1..Len(ingredient.compatibility.synergistic) |->
            vesselEdge(<<"v","e","s","s","e","l","_","s","y","n","e","r","g","y","_">>, ingredient,
                       ingredient.compatibility.synergistic[k], "enhancement",
                       Dec(800), Dec(900), "vessel_compatibility_database", t)]
         \o [k \in 1..Len(ingredient.compatibility.avoid) |->
               vesselEdge(<<"v","e","s","s","e","l","_","a","v","o","i","d","_">>, ingredient,
                          ingredient.compatibility.avoid[k], "inhibition",
                          Dec(900), Num(1), "vessel_incompatibility_database", t)]])

\* mergeNodes and mergeHyperedges: the proof's, then the vessel's whose id the proof
\* does not have
mergeById(proofItems, vesselItems) ==
  proofItems \o SelectSeq(vesselItems,
                          LAMBDA v : \A i \in 1..Len(proofItems) : proofItems[i].id # v.id)

generateCompatibilityRecommendations(edges) ==
  LET some(type) == \E i \in 1..Len(edges) : edges[i].type = type
  IN  (IF some("inhibition")
       THEN <<"Consider avoiding this ingredient combination due to potential antagonistic effects">>
       ELSE <<>>)
      \o (IF some("enhancement")
          THEN <<"This ingredient combination shows synergistic potential">>
          ELSE <<>>)
      \o (IF Len(edges) = 0
          THEN <<"Limited interaction data available - consider conducting compatibility testing">>
          ELSE <<>>)

\* array.includes(x)
contains(array, x) == \E i \in 1..Len(array) : array[i] = x

queryIngredientCompatibility(graph, ingredient1, ingredient2) ==
  LET supportingEdges ==
        SelectSeq(graph.hyperedges,
                  LAMBDA edge :
                    \/ contains(edge.nodes, ingredient1) /\ contains(edge.nodes, ingredient2)
                    \/ /\ contains(edge.nodes, <<"i","n","g","r","e","d","i","e","n","t","_">> \o ingredient1)
                       /\ contains(edge.nodes, <<"i","n","g","r","e","d","i","e","n","t","_">> \o ingredient2))
      supportingNodes ==
        SelectSeq(graph.nodes,
                  LAMBDA node : \E i \in 1..Len(supportingEdges) :
                                   contains(supportingEdges[i].nodes, node.id))
  IN  [supportingNodes |-> supportingNodes,
       supportingEdges |-> supportingEdges,
       confidenceScore |->
         IF Len(supportingEdges) > 0
         THEN Mean([i \in 1..Len(supportingEdges) |-> supportingEdges[i].confidence])
         ELSE Dec(500),
       recommendations |-> generateCompatibilityRecommendations(supportingEdges)]

\* nodeOverlap and edgeOverlap: the share of the proof's ids the vessel graph has too
overlap(proofItems, vesselItems) ==
  LET proofIds == { proofItems[i].id : i \in 1..Len(proofItems) }
      vesselIds == { vesselItems[i].id : i \in 1..Len(vesselItems) }
  IN  Over(Num(Cardinality(proofIds \cap vesselIds)), Num(Cardinality(proofIds)))

(***************************************************************************)
(* HypergraphIntegrationEngine: the analysis of a hypergraph               *)
(***************************************************************************)
\* Math.min(edgeCount / nodeCount, 1.0), 0 for at most one node
calculateConnectivity(nodes, hyperedges) ==
  IF Len(nodes) <= 1 THEN Num(0)
  ELSE MathMin(Q(Len(hyperedges), Len(nodes)), Num(1))

\* the node types in the order of their first node, as the Map holds them
RECURSIVE typeGroupKeys(_, _)
typeGroupKeys(nodes, seen) ==
  IF nodes = <<>> THEN <<>>
  ELSE IF Head(nodes).type \in seen THEN typeGroupKeys(Tail(nodes), seen)
  ELSE <<Head(nodes).type>> \o typeGroupKeys(Tail(nodes), seen \cup {Head(nodes).type})

\* the clustering of one group of the Map
groupClustering(nodes, hyperedges, type) ==
  LET nodeIds == { nodes[i].id : i \in { k \in 1..Len(nodes) : nodes[k].type = type } }
      groupSize == Len(SelectSeq(nodes, LAMBDA n : n.type = type))
      internalEdges ==
        Len(SelectSeq(hyperedges,
                      LAMBDA edge : \A k \in 1..Len(edge.nodes) : edge.nodes[k] \in nodeIds))
      maxPossibleEdges == Q(groupSize * (groupSize - 1), 2)
  IN  IF Gt(maxPossibleEdges, Num(0)) THEN Over(Num(internalEdges), maxPossibleEdges)
      ELSE Num(0)

calculateClustering(nodes, hyperedges) ==
  LET types == typeGroupKeys(nodes, {})
      totalClustering ==
        SumSeq([i \in 1..Len(types) |-> groupClustering(nodes, hyperedges, types[i])])
  IN  IF Len(types) > 0 THEN Over(totalClustering, Num(Len(types))) ELSE Num(0)

RECURSIVE shortestPathFrom(_, _, _, _)
\* the while loop of findShortestPath on its queue and its visited set
shortestPathFrom(hyperedges, endId, queue, visited) ==
  IF queue = <<>> THEN <<>>
  ELSE LET nodeId == Head(queue).nodeId
           path == Head(queue).path
       IN  IF nodeId = endId THEN path
           ELSE IF nodeId \in visited
           THEN shortestPathFrom(hyperedges, endId, Tail(queue), visited)
           ELSE LET incident == SelectSeq(hyperedges, LAMBDA edge : contains(edge.nodes, nodeId))
                    connectedNodes ==
                      SelectSeq(Flatten([i \in 1..Len(incident) |-> incident[i].nodes]),
                                LAMBDA id : id # nodeId /\ id \notin visited)
                IN  shortestPathFrom(
                      hyperedges, endId,
                      Tail(queue)
                      \o [i \in 1..Len(connectedNodes) |->
                            [nodeId |-> connectedNodes[i],
                             path |-> Append(path, connectedNodes[i])]],
                      visited \cup {nodeId})

findShortestPath(nodes, hyperedges, startId, endId) ==
  shortestPathFrom(hyperedges, endId, <<[nodeId |-> startId, path |-> <<startId>>]>>, {})

\* n.properties.get(key) === value; a node without the key gives undefined
propertyIs(node, key, value) ==
  key \in DOMAIN node.properties /\ node.properties[key] = value

findCriticalPaths(nodes, hyperedges) ==
  LET assumptionNodes == SelectSeq(nodes, LAMBDA n : propertyIs(n, "type", "assumption"))
      conclusionNodes == SelectSeq(nodes, LAMBDA n : propertyIs(n, "type", "conclusion"))
      found == Flatten([a \in 1..Len(assumptionNodes) |->
                  [c \in 1..Len(conclusionNodes) |->
                     findShortestPath(nodes, hyperedges, assumptionNodes[a].id,
                                      conclusionNodes[c].id)]])
  IN  SelectSeq(found, LAMBDA path : Len(path) > 0)

\* n.properties.get('confidence') || orElse: undefined, 0 and NaN give orElse
confidenceOr(node, orElse) ==
  IF "confidence" \in DOMAIN node.properties
     /\ ~isNaN(node.properties.confidence)
     /\ node.properties.confidence # Num(0)
  THEN node.properties.confidence
  ELSE orElse

findVulnerabilities(nodes, hyperedges) ==
  LET lowConfidenceNodes == SelectSeq(nodes, LAMBDA n : Lt(confidenceOr(n, Num(1)), Dec(500)))
      connections(n) ==
        Len(SelectSeq(hyperedges, LAMBDA e : contains(e.nodes, n.id)))
      singleConnectionNodes == SelectSeq(nodes, LAMBDA n : connections(n) = 1)
  IN  [i \in 1..Len(lowConfidenceNodes) |-> lowConfidenceNodes[i].id]
      \o [i \in 1..Len(singleConnectionNodes) |-> singleConnectionNodes[i].id]

findOpportunities(nodes, hyperedges) ==
  LET highConfidenceNodes == SelectSeq(nodes, LAMBDA n : Gt(confidenceOr(n, Num(0)), Dec(800)))
      synergisticEdges == SelectSeq(hyperedges, LAMBDA e : e.type = "enhancement")
  IN  [i \in 1..Len(highConfidenceNodes) |-> <<"l","e","v","e","r","a","g","e","_">> \o highConfidenceNodes[i].id]
      \o [i \in 1..Len(synergisticEdges) |-> <<"s","y","n","e","r","g","y","_">> \o synergisticEdges[i].id]

analyzeHypergraph(nodes, hyperedges) ==
  [connectivity |-> calculateConnectivity(nodes, hyperedges),
   clustering |-> calculateClustering(nodes, hyperedges),
   criticalPaths |-> findCriticalPaths(nodes, hyperedges),
   vulnerabilities |-> findVulnerabilities(nodes, hyperedges),
   opportunities |-> findOpportunities(nodes, hyperedges)]

(***************************************************************************)
(* The calls made on a HypergraphIntegrationEngine                         *)
(***************************************************************************)
\* graphs are created under the first id only: the second is never found
ProofIds == {"proof_1", "proof_2"}

CreatedProofIds == {"proof_1"}

\* the proof the verification engine returns for the scenario request, and the one it
\* returns for a request whose hypothesis spells out the premises of its steps
ScenarioProof ==
  buildFormalProof(
    realizeRelevance(generateCandidateSteps(ScenarioRequest, StartTime),
                     createRelevanceContext(ScenarioRequest),
                     initializeCognitiveState).relevantSteps,
    ScenarioRequest, StartTime)

LinkedRequest == [ScenarioRequest EXCEPT !.hypothesis = LinkedHypothesis]

LinkedProof ==
  buildFormalProof(
    realizeRelevance(generateCandidateSteps(LinkedRequest, StartTime),
                     createRelevanceContext(LinkedRequest),
                     initializeCognitiveState).relevantSteps,
    LinkedRequest, StartTime)

\* the linked request with a target effect of confidence 0
UnsureRequest == [LinkedRequest EXCEPT !.targetEffects[1].confidence = Num(0)]

UnsureProof ==
  buildFormalProof(
    realizeRelevance(generateCandidateSteps(UnsureRequest, StartTime),
                     createRelevanceContext(UnsureRequest),
                     initializeCognitiveState).relevantSteps,
    UnsureRequest, StartTime)

StepLists == { ScenarioProof.steps, LinkedProof.steps, UnsureProof.steps }

\* ingredient R1 is to be kept away from R2, and R2 works well with R1
ExistingIngredientPool ==
  << [id |-> <<"R","1">>, label |-> <<"H","y","a","l","u","r","o","n","i","c"," ","A","c","i","d">>, safety_rating |-> "high",
      functions |-> <<"humectant", "hydration">>,
      compatibility |-> [synergistic |-> <<>>, avoid |-> <<<<"R","2">>>>]],
     [id |-> <<"R","2">>, label |-> <<"N","i","a","c","i","n","a","m","i","d","e">>, safety_rating |-> "medium",
      functions |-> <<"brightening">>,
      compatibility |-> [synergistic |-> <<<<"R","1">>>>, avoid |-> <<>>]] >>

ExistingIngredientLists == { <<>>, ExistingIngredientPool }

ExistingProductLists ==
  { <<>>,
    <<[id |-> <<"P","1">>, label |-> <<"S","e","r","u","m">>, complexity_score |-> Num(40)]>> }

InteractionLists ==
  { <<>>,
    <<[source |-> <<"R","1">>, target |-> <<"R","2">>, type |-> "antagonistic",
       mechanism |-> "ph_conflict", confidence |-> Dec(700), evidenceLevel |-> "in-vitro"]>> }

VesselData ==
  { [ingredients |-> ings, products |-> products] :
      ings \in { <<ExistingIngredientPool[1]>>, ExistingIngredientPool },
      products \in ExistingProductLists }

QueryPairs == { <<<<"R","1">>, <<"R","2">>>>, <<<<"R","2">>, <<"R","1">>>> }

\* the call returns value, or throws error
Returned(op, proofId, args, error, value) ==
  [op |-> op, proofId |-> proofId, args |-> args, error |-> error, value |-> value]

GraphInit ==
  /\ EngineIdle
  /\ now = StartTime
  /\ cognitiveState = initializeCognitiveState
  /\ updates = 0
  /\ GraphIdle
  /\ TensorIdle
  /\ FormalIdle
  /\ OrderIdle
  /\ PenetrationIdle
  /\ WeightsIdle
  /\ AssistantIdle
  /\ CallsIdle

CreateProofHypergraph ==
  /\ \E proofId \in CreatedProofIds, steps \in StepLists,
        ingredients \in ExistingIngredientLists, interactions \in InteractionLists :
     \E nodes \in {createProofNodes(steps, ingredients)},
        hyperedges \in {createProofHyperedges(steps, interactions, now)} :
       LET proofGraph == [nodes |-> nodes, hyperedges |-> hyperedges,
                          analysis |-> analyzeHypergraph(nodes, hyperedges)]
       IN  /\ proofGraphs' = MapSet(proofGraphs, proofId, proofGraph)
           /\ nodeIndexes' =
                nodeIndexes \cup { proofGraph.nodes[i].id : i \in 1..Len(proofGraph.nodes) }
           /\ edgeIndexes' =
                edgeIndexes
                  \cup { proofGraph.hyperedges[i].id : i \in 1..Len(proofGraph.hyperedges) }
           /\ returned' = Returned("createProofHypergraph", proofId,
                                   [steps |-> steps, ingredients |-> ingredients,
                                    interactions |-> interactions],
                                   NoError, proofGraph)
  /\ UNCHANGED <<request, pc, now, candidates, analysis, result, contextHistory,
                 cognitiveState, updates, tensorVars, formalVars, orderVars, penetrationVars, weightVars, assistantVars, callVars>>

IntegrateWithVesselHypergraph ==
  /\ \E proofId \in ProofIds, vesselData \in VesselData :
       IF proofId \notin DOMAIN proofGraphs
       THEN returned' = Returned("integrateWithVesselHypergraph", proofId, vesselData,
                                 "Proof graph <proofId> not found", Null)
       ELSE LET proofGraph == proofGraphs[proofId]
                vesselNodes == createVesselNodes(vesselData)
                vesselEdges == createVesselEdges(vesselData, now)
                combinedNodes == mergeById(proofGraph.nodes, vesselNodes)
                combinedEdges == mergeById(proofGraph.hyperedges, vesselEdges)
                combinedGraph ==
                  [nodes |-> combinedNodes, hyperedges |-> combinedEdges,
                   analysis |-> analyzeHypergraph(combinedNodes, combinedEdges)]
            IN  returned' =
                  Returned("integrateWithVesselHypergraph", proofId, vesselData, NoError,
                           [combinedGraph |-> combinedGraph,
                            integrationMetrics |->
                              [nodeOverlap |-> overlap(proofGraph.nodes, vesselNodes),
                               edgeOverlap |-> overlap(proofGraph.hyperedges, vesselEdges),
                               consistencyScore |-> Dec(800)]])
  /\ UNCHANGED <<proofGraphs, nodeIndexes, edgeIndexes>>
  /\ UNCHANGED <<request, pc, now, candidates, analysis, result, contextHistory,
                 cognitiveState, updates, tensorVars, formalVars, orderVars, penetrationVars, weightVars, assistantVars, callVars>>

\* queryProofSupport(proofId, 'ingredient_compatibility', parameters)
QueryProofSupport ==
  /\ \E proofId \in ProofIds, pair \in QueryPairs :
       LET parameters == [ingredient1 |-> pair[1], ingredient2 |-> pair[2]]
       IN  IF proofId \notin DOMAIN proofGraphs
           THEN returned' = Returned("queryProofSupport", proofId, parameters,
                                     "Proof graph <proofId> not found", Null)
           ELSE returned' =
                  Returned("queryProofSupport", proofId, parameters, NoError,
                           queryIngredientCompatibility(proofGraphs[proofId],
                                                        pair[1], pair[2]))
  /\ UNCHANGED <<proofGraphs, nodeIndexes, edgeIndexes>>
  /\ UNCHANGED <<request, pc, now, candidates, analysis, result, contextHistory,
                 cognitiveState, updates, tensorVars, formalVars, orderVars, penetrationVars, weightVars, assistantVars, callVars>>

(***************************************************************************)
(* TensorOperationsEngine.  A field is its dimensions, its data and the    *)
(* units and description of its metadata (the timestamp, which nothing     *)
(* reads, is left out).  Reading an array past its end gives undefined,    *)
(* which arithmetic turns into NaN: NaN stands for both.                   *)
(***************************************************************************)
\* data[i] for the zero-based index i
At(data, i) == IF i + 1 \in 1..Len(data) THEN data[i + 1] ELSE NaN

\* x || 1 on a number
OrOne(x) == IF isNaN(x) \/ x = Num(0) THEN Num(1) ELSE x

Field(dimensions, data, units, description) ==
  [dimensions |-> dimensions, data |-> data,
   metadata |-> [units |-> units, description |-> description]]

createScalarField(value, units, description) == Field(<<1>>, <<value>>, units, description)

\* what a call does: it returns a field, or throws an Error whose message is the
\* concatenation of the pieces in error
Returns(field) == [threw |-> FALSE, error |-> <<>>, field |-> field]

Throws(error) == [threw |-> TRUE, error |-> error, field |-> Null]

RECURSIVE sweptInPlace(_, _, _)
\* the first n values of a 1D sweep that reads the left neighbour it has just written
sweptInPlace(c, factor, n) ==
  IF n = 0 THEN <<>>
  ELSE LET before == sweptInPlace(c, factor, n - 1)
       IN  IF n = 1 \/ n = Len(c) THEN Append(before, c[n])
           ELSE Append(before,
                       Plus(c[n], Times(factor,
                                        Plus(Minus(c[n + 1], Times(Num(2), c[n])),
                                             before[n - 1]))))

\* diffusionOperation with a 1D loop that updates concentration.data where it stands
diffusionOperationInPlace(ins) ==
  Returns(Field(ins[1].dimensions,
                sweptInPlace(ins[1].data, Times(At(ins[2].data, 0), At(ins[3].data, 0)),
                             Len(ins[1].data)),
                ins[1].metadata.units, "Diffused concentration field"))

\* the 2D loop is modelled for fields whose data holds width * height values
diffusionOperation(ins) ==
  LET concentration == ins[1]
      c == concentration.data
      D == At(ins[2].data, 0)
      dt == At(ins[3].data, 0)
      width == concentration.dimensions[1]
      height == concentration.dimensions[2]
      \* the cells the loops visit, by zero-based index
      inner ==
        IF Len(concentration.dimensions) = 1 THEN 1..(Len(c) - 2)
        ELSE IF Len(concentration.dimensions) = 2
        THEN { y * width + x : y \in 1..(height - 2), x \in 1..(width - 2) }
        ELSE {}
      d2c(i) ==
        IF Len(concentration.dimensions) = 1
        THEN Plus(Minus(At(c, i + 1), Times(Num(2), At(c, i))), At(c, i - 1))
        ELSE Minus(Plus(Plus(Plus(At(c, i + 1), At(c, i - 1)), At(c, i + width)),
                        At(c, i - width)),
                   Times(Num(4), At(c, i)))
  IN  Returns(Field(concentration.dimensions,
                    Array([k \in 1..Len(c) |->
                             IF (k - 1) \in inner
                             THEN Plus(c[k], Times(Times(D, dt), d2c(k - 1)))
                             ELSE c[k]]),
                    concentration.metadata.units, "Diffused concentration field"))

penetrationDepthOperation(ins) ==
  LET molecularWeight == At(ins[1].data, 0)
      partitionCoeff == At(ins[2].data, 0)
      concentration == At(ins[3].data, 0)
      basePenetration == Num(100)
      mwFactor == MathExp(Over(Neg(molecularWeight), Num(1000)))
      logPFactor == MathMin(Num(2), MathMax(Dec(100), partitionCoeff))
      concFactor == MathMin(Num(2), MathLog(Plus(concentration, Num(1))))
      penetrationDepth == Times(Times(Times(basePenetration, mwFactor), logPFactor),
                                concFactor)
  IN  Returns(createScalarField(penetrationDepth, "micrometers",
                                "Calculated penetration depth"))

calculateGradient(source, target) ==
  Field(source.dimensions,
        Array([k \in 1..Len(source.data) |->
                 Minus(source.data[k], OrZero(At(target.data, k - 1)))]),
        source.metadata.units, "Concentration gradient")

layerTransportOperation(ins) ==
  LET transportCoeff == At(ins[3].data, 0)
      gradient == calculateGradient(ins[1], ins[2])
  IN  Returns(Field(gradient.dimensions,
                    Array([k \in 1..Len(gradient.data) |->
                             Times(gradient.data[k], transportCoeff)]),
                    ins[1].metadata.units, "Layer transport flux"))

dimensionsMatch(tensorA, tensorB) ==
  /\ Len(tensorA.dimensions) = Len(tensorB.dimensions)
  /\ \A i \in 1..Len(tensorA.dimensions) : tensorA.dimensions[i] = tensorB.dimensions[i]

tensorAddOperation(ins) ==
  IF ~dimensionsMatch(ins[1], ins[2])
  THEN Throws(<<"Tensor dimensions must match for addition">>)
  ELSE Returns(Field(ins[1].dimensions,
                     Array([k \in 1..Len(ins[1].data) |->
                              Plus(ins[1].data[k], At(ins[2].data, k - 1))]),
                     ins[1].metadata.units, "Tensor sum"))

ingredientInteractionOperation(ins) ==
  LET interactionCoeff == At(ins[3].data, 0)
  IN  Returns(Field(ins[1].dimensions,
                    Array([k \in 1..Len(ins[1].data) |->
                             Times(Times(ins[1].data[k], OrZero(At(ins[2].data, k - 1))),
                                   interactionCoeff)]),
                    ins[1].metadata.units, "Ingredient interaction field"))

barrierFunctionOperation(ins) ==
  Returns(Field(ins[1].dimensions,
                Array([k \in 1..Len(ins[1].data) |->
                         Times(OrZero(At(ins[2].data, k - 1)), ins[1].data[k])]),
                "cm/s", "Effective barrier permeability"))

effectivenessOperation(ins) ==
  Returns(Field(ins[1].dimensions,
                Array([k \in 1..Len(ins[1].data) |->
                         MathMin(Num(1),
                                 Over(Times(Times(ins[1].data[k],
                                                  OrZero(At(ins[2].data, k - 1))),
                                            OrOne(At(ins[3].data, k - 1))),
                                      Num(100)))]),
                "unitless", "Calculated effectiveness"))

validateTensorField(field) ==
  /\ Len(field.dimensions) > 0
  /\ Len(field.data) > 0
  /\ \A k \in 1..Len(field.data) : ~isNaN(field.data[k])

validateConcentrationField(field) ==
  validateTensorField(field) /\ \A k \in 1..Len(field.data) : Ge(field.data[k], Num(0))

validatePositiveField(field) ==
  validateTensorField(field) /\ \A k \in 1..Len(field.data) : Gt(field.data[k], Num(0))

validateNormalizedField(field) ==
  /\ validateTensorField(field)
  /\ \A k \in 1..Len(field.data) : Ge(field.data[k], Num(0)) /\ Le(field.data[k], Num(1))

\* the registry initializeOperations fills: each operation's input roles and validator
operations ==
  [diffusion |->
     [inputFields |-> <<"concentration", "diffusivity", "time">>,
      validation |-> "validateConcentrationField"],
   penetration_depth |->
     [inputFields |-> <<"molecular_weight", "log_p", "concentration">>,
      validation |-> "validatePositiveField"],
   layer_transport |->
     [inputFields |-> <<"source_layer", "target_layer", "transport_coefficient">>,
      validation |-> "validateConcentrationField"],
   tensor_add |->
     [inputFields |-> <<"tensor_a", "tensor_b">>,
      validation |-> "validateTensorField"],
   ingredient_interaction |->
     [inputFields |-> <<"ingredient_1", "ingredient_2", "interaction_type">>,
      validation |-> "validateConcentrationField"],
   barrier_function |->
     [inputFields |-> <<"barrier_integrity", "permeability_map">>,
      validation |-> "validatePositiveField"],
   effectiveness_calculation |->
     [inputFields |-> <<"concentration_profile", "target_site", "mechanism">>,
      validation |-> "validateNormalizedField"]]

\* operation.operation(inputs)
operate(name, ins) ==
  CASE name = "diffusion" -> diffusionOperation(ins)
    [] name = "penetration_depth" -> penetrationDepthOperation(ins)
    [] name = "layer_transport" -> layerTransportOperation(ins)
    [] name = "tensor_add" -> tensorAddOperation(ins)
    [] name = "ingredient_interaction" -> ingredientInteractionOperation(ins)
    [] name = "barrier_function" -> barrierFunctionOperation(ins)
    [] name = "effectiveness_calculation" -> effectivenessOperation(ins)

\* operation.validation(result)
validation(name, field) ==
  CASE operations[name].validation = "validateTensorField" -> validateTensorField(field)
    [] operations[name].validation = "validateConcentrationField" ->
         validateConcentrationField(field)
    [] operations[name].validation = "validatePositiveField" -> validatePositiveField(field)
    [] operations[name].validation = "validateNormalizedField" ->
         validateNormalizedField(field)

\* executeOperation without the check of the result
executeOperationUnvalidated(name, ins) ==
  IF name \notin DOMAIN operations
  THEN Throws(<<"Unknown tensor operation: ", name>>)
  ELSE IF Len(ins) # Len(operations[name].inputFields)
  THEN Throws(<<"Operation ", name, " expects ",
                ToString(Len(operations[name].inputFields)), " inputs, got ",
                ToString(Len(ins))>>)
  ELSE operate(name, ins)

executeOperation(name, ins) ==
  IF name \notin DOMAIN operations
  THEN Throws(<<"Unknown tensor operation: ", name>>)
  ELSE IF Len(ins) # Len(operations[name].inputFields)
  THEN Throws(<<"Operation ", name, " expects ",
                ToString(Len(operations[name].inputFields)), " inputs, got ",
                ToString(Len(ins))>>)
  ELSE LET computed == operate(name, ins)
       IN  IF computed.threw THEN computed
           ELSE IF ~validation(name, computed.field)
           THEN Throws(<<"Operation ", name, " produced invalid result">>)
           ELSE computed

(***************************************************************************)
(* The calls made: every registered operation name and one that is not     *)
(* registered, on up to MaxInputs fields drawn from FieldPool.             *)
(***************************************************************************)
MaxInputs == 3

OperationNames == DOMAIN operations \cup {"tensor_multiply"}

Nums(ns) == Array([i \in 1..Len(ns) |-> Num(ns[i])])

FieldPool ==
  << Field(<<3>>, Nums(<<1, 4, 1>>), "mg/ml", "Concentration profile"),
     Field(<<3>>, Nums(<<0, 1, 2>>), "mg/ml", "Target layer"),
     createScalarField(Num(1), "unitless", "Coefficient"),
     createScalarField(Num(-2), "unitless", "Coefficient"),
     Field(<<0>>, <<>>, "mg/ml", "Empty field"),
     Field(<<2>>, Nums(<<1, 2>>), "mg/ml", "Concentration profile"),
     Field(<<3, 3>>, Nums(<<1, 0, 0, 0, 1, 0, 0, 0, 0>>), "mg/ml", "Concentration map"),
     Field(<<5>>, Nums(<<4, 0, 0, 0, 4>>), "mg/ml", "Concentration profile") >>

InputLists ==
  UNION { { Array([i \in 1..n |-> FieldPool[f[i]]]) : f \in [1..n -> 1..Len(FieldPool)] }
          : n \in 0..MaxInputs }

TensorInit ==
  /\ EngineIdle
  /\ now = StartTime
  /\ cognitiveState = initializeCognitiveState
  /\ updates = 0
  /\ GraphIdle
  /\ FormalIdle
  /\ OrderIdle
  /\ PenetrationIdle
  /\ WeightsIdle
  /\ AssistantIdle
  /\ CallsIdle
  /\ operationName \in OperationNames
  /\ inputs \in InputLists
  /\ outcome = Null

ExecuteOperation ==
  /\ outcome = Null
  /\ outcome' = executeOperation(operationName, inputs)
  /\ UNCHANGED <<request, pc, now, candidates, analysis, result, contextHistory,
                 cognitiveState, updates, graphVars, operationName, inputs,
                 formalVars, orderVars, penetrationVars, weightVars, assistantVars, callVars>>

(***************************************************************************)
(* FormalLogicEngine.  A term is its type, name and args; a proposition    *)
(* its id, statement, hypothesis list and conclusion; a tactic its name    *)
(* and, for the apply tactics, its target and arguments.  Names that are   *)
(* built from request text are strings of characters, like that text.      *)
(***************************************************************************)
Term(type, name, args) == [type |-> type, name |-> name, args |-> args]

Variable(name) == [type |-> "variable", name |-> name]

Proposition(id, statement, hypothesis, conclusion) ==
  [id |-> id, statement |-> statement, hypothesis |-> hypothesis, conclusion |-> conclusion]

\* the digits of a fraction of thousandths, without the zeros that end it
FractionDigits(thousandths) ==
  LET d == <<DigitChars[(thousandths \div 100) + 1], DigitChars[((thousandths \div 10) % 10) + 1],
             DigitChars[(thousandths % 10) + 1]>>
  IN  IF thousandths % 10 # 0 THEN d
      ELSE IF thousandths % 100 # 0 THEN SubSeq(d, 1, 2)
      ELSE SubSeq(d, 1, 1)

\* Number.prototype.toString for a number of at most three decimal places
numberToString(x) ==
  IF isNaN(x) THEN <<"N","a","N">>
  ELSE LET scaled == (Abs(x[1]) * 1000) \div x[2]
           whole == Digits(scaled \div 1000)
           sign == IF x[1] < 0 THEN <<"-">> ELSE <<>>
       IN  IF scaled % 1000 = 0 THEN sign \o whole
           ELSE sign \o whole \o <<".">> \o FractionDigits(scaled % 1000)

initializeAxioms ==
  [penetrationLaw |->
     Proposition(<<"p","e","n","e","t","r","a","t","i","o","n","_","l","a","w">>, Term("proposition", <<"F","i","c","k","L","a","w">>, <<>>), <<>>,
                 Term("predicate", <<"P","e","n","e","t","r","a","t","i","o","n","R","a","t","e">>,
                      <<Variable(<<"d","i","f","f","u","s","i","o","n","_","c","o","e","f","f","i","c","i","e","n","t">>),
                        Variable(<<"c","o","n","c","e","n","t","r","a","t","i","o","n","_","g","r","a","d","i","e","n","t">>)>>)),
   diffusionEquation |->
     Proposition(<<"d","i","f","f","u","s","i","o","n","_","e","q","u","a","t","i","o","n">>, Term("proposition", <<"D","i","f","f","u","s","i","o","n","E","q","u","a","t","i","o","n">>, <<>>), <<>>,
                 Term("predicate", <<"C","o","n","c","e","n","t","r","a","t","i","o","n","P","r","o","f","i","l","e">>,
                      <<Variable(<<"t","i","m","e">>), Variable(<<"d","e","p","t","h">>)>>)),
   barrierFunction |->
     Proposition(<<"b","a","r","r","i","e","r","_","f","u","n","c","t","i","o","n">>, Term("proposition", <<"B","a","r","r","i","e","r","I","n","t","e","g","r","i","t","y">>, <<>>), <<>>,
                 Term("predicate", <<"P","e","r","m","e","a","b","i","l","i","t","y","C","o","e","f","f","i","c","i","e","n","t">>,
                      <<Variable(<<"b","a","r","r","i","e","r","_","s","t","a","t","e">>)>>)),
   safetyConstraints |->
     <<Proposition(<<"c","o","n","c","e","n","t","r","a","t","i","o","n","_","l","i","m","i","t">>,
                   Term("predicate", <<"C","o","n","c","e","n","t","r","a","t","i","o","n","L","i","m","i","t">>,
                        <<Variable(<<"i","n","g","r","e","d","i","e","n","t">>), Variable(<<"m","a","x","_","s","a","f","e","_","c","o","n","c","e","n","t","r","a","t","i","o","n">>)>>),
                   <<>>,
                   Term("proposition", <<"S","a","f","e","F","o","r","T","o","p","i","c","a","l","U","s","e">>, <<Variable(<<"i","n","g","r","e","d","i","e","n","t">>)>>))>>,
   compatibilityRules |->
     <<Proposition(<<"p","h","_","c","o","m","p","a","t","i","b","i","l","i","t","y">>,
                   Term("predicate", <<"P","H","C","o","m","p","a","t","i","b","i","l","i","t","y">>,
                        <<Variable(<<"i","n","g","r","e","d","i","e","n","t","1">>), Variable(<<"i","n","g","r","e","d","i","e","n","t","2">>),
                          Variable(<<"p","h","_","r","a","n","g","e">>)>>),
                   <<>>,
                   Term("proposition", <<"C","o","m","p","a","t","i","b","l","e","I","n","g","r","e","d","i","e","n","t","s">>,
                        <<Variable(<<"i","n","g","r","e","d","i","e","n","t","1">>), Variable(<<"i","n","g","r","e","d","i","e","n","t","2">>)>>))>>]

constraintToTerm(constraint) ==
  Term("predicate", <<"C","o","n","s","t","r","a","i","n","t","_">> \o constraint.type,
       <<Variable(constraint.parameter), Variable(numberToString(constraint.value))>>)

\* the request's targetEffects is an array here (undefined gives the same as empty)
formulateMainTheorem(req, t) ==
  Proposition(<<"m","a","i","n","_","t","h","e","o","r","e","m","_">> \o Digits(t),
              Term("proposition", <<"F","o","r","m","u","l","a","t","i","o","n","V","a","l","i","d">>, <<Variable(req.hypothesis)>>),
              Array([i \in 1..Len(req.ingredients) |->
                       Term("predicate", <<"I","n","g","r","e","d","i","e","n","t">>,
                            <<Variable(req.ingredients[i].id)>>)])
                \o Array([i \in 1..Len(req.constraints) |->
                            constraintToTerm(req.constraints[i])]),
              Term("proposition", <<"A","c","h","i","e","v","e","s","T","a","r","g","e","t","E","f","f","e","c","t","s">>,
                   Array([i \in 1..Len(req.targetEffects) |->
                            Variable(req.targetEffects[i].effectType)])))

Tactic(name) == [name |-> name]

ApplyStep(target, argument) ==
  [name |-> "apply", target |-> target, arguments |-> <<argument>>]

\* h.name || 'unnamed'
OrUnnamed(name) == IF name = <<>> THEN <<"u","n","n","a","m","e","d">> ELSE name

\* _constructProof with the apply tactics in the order compatibility, penetration, safety
constructProofReversed(proposition) ==
  [id |-> <<"p","r","o","o","f","_">> \o proposition.id,
   proposition |-> proposition.id,
   tactics |->
     <<Tactic("intros"),
       ApplyStep("compatibility_check", initializeAxioms.compatibilityRules[1].statement),
       ApplyStep("penetration_model", initializeAxioms.penetrationLaw.statement),
       ApplyStep("safety_verification", initializeAxioms.safetyConstraints[1].statement),
       Tactic("simpl"), Tactic("assumption")>>,
   qed |-> TRUE,
   assumptions |-> Array([i \in 1..Len(proposition.hypothesis) |->
                            OrUnnamed(proposition.hypothesis[i].name)])]

constructProof(proposition) ==
  [id |-> <<"p","r","o","o","f","_">> \o proposition.id,
   proposition |-> proposition.id,
   tactics |->
     <<Tactic("intros")>>
     \o (IF proposition.statement.name = <<"F","o","r","m","u","l","a","t","i","o","n","V","a","l","i","d">>
         THEN <<ApplyStep("safety_verification",
                            initializeAxioms.safetyConstraints[1].statement),
                ApplyStep("penetration_model", initializeAxioms.penetrationLaw.statement),
                ApplyStep("compatibility_check",
                            initializeAxioms.compatibilityRules[1].statement)>>
         ELSE <<>>)
     \o <<Tactic("simpl"), Tactic("assumption")>>,
   qed |-> TRUE,
   assumptions |-> Array([i \in 1..Len(proposition.hypothesis) |->
                            OrUnnamed(proposition.hypothesis[i].name)])]

\* what a call of the engine does: it returns value, or throws an Error whose message
\* is the concatenation of the pieces in error
FormalReturns(value) == [threw |-> FALSE, error |-> <<>>, value |-> value]

FormalThrows(error) == [threw |-> TRUE, error |-> error, value |-> Null]

\* the promise resolves with the proof, or rejects: a targetEffects that is neither
\* undefined nor an array has no map method
generateFormalProof(req, t) ==
  IF req.targetEffectsType # "array"
  THEN FormalThrows(<<"request.targetEffects?.map is not a function">>)
  ELSE FormalReturns(constructProof(formulateMainTheorem(req, t)))

\* _applyIntros that leaves the proposition as it is
applyIntrosKeeping(prop) == <<prop>>

applyIntros(prop) == <<[prop EXCEPT !.hypothesis = <<>>, !.statement = prop.conclusion]>>

applyApply(tactic, prop) == <<prop>>

applyUnfold(tactic, prop) == <<prop>>

applySimpl(prop) == <<prop>>

applyAssumption(prop) == <<>>

applySplit(prop) == <<prop, prop>>

applyLeftRight(direction, prop) == <<prop>>

applyTactic(tactic, proposition) ==
  CASE tactic.name = "intros" -> FormalReturns(applyIntros(proposition))
    [] tactic.name = "apply" -> FormalReturns(applyApply(tactic, proposition))
    [] tactic.name = "unfold" -> FormalReturns(applyUnfold(tactic, proposition))
    [] tactic.name = "simpl" -> FormalReturns(applySimpl(proposition))
    [] tactic.name = "assumption" -> FormalReturns(applyAssumption(proposition))
    [] tactic.name = "split" -> FormalReturns(applySplit(proposition))
    [] tactic.name \in {"left", "right"} ->
         FormalReturns(applyLeftRight(tactic.name, proposition))
    [] OTHER -> FormalThrows(<<"Unknown tactic: ", tactic.name>>)

\* currentGoals.flatMap(goal => goal ? this.applyTactic(tactic, goal) : []); Null is
\* the undefined a Map gives for a key it does not hold
RECURSIVE flatMapApply(_, _)
flatMapApply(tactic, goals) ==
  IF goals = <<>> THEN FormalReturns(<<>>)
  ELSE IF Head(goals) = Null THEN flatMapApply(tactic, Tail(goals))
  ELSE LET first == applyTactic(tactic, Head(goals))
           rest == flatMapApply(tactic, Tail(goals))
       IN  IF first.threw THEN first
           ELSE IF rest.threw THEN rest
           ELSE FormalReturns(first.value \o rest.value)

RECURSIVE replayTactics(_, _, _)
\* the goals and the errors after the loop over the tactics
replayTactics(tactics, currentGoals, errors) ==
  IF tactics = <<>> THEN [currentGoals |-> currentGoals, errors |-> errors]
  ELSE LET newGoals == flatMapApply(Head(tactics), currentGoals)
       IN  IF newGoals.threw
           THEN replayTactics(Tail(tactics), currentGoals,
                              Append(errors, <<"Tactic ", Head(tactics).name, " failed: ">>
                                             \o newGoals.error))
           ELSE replayTactics(Tail(tactics), newGoals.value, errors)

validateProof(stored, proof) ==
  LET goal == IF proof.proposition \in DOMAIN stored THEN stored[proof.proposition] ELSE Null
      replayed == replayTactics(proof.tactics, <<goal>>, <<>>)
      errors == IF Len(replayed.currentGoals) > 0 /\ ~proof.qed
                THEN Append(replayed.errors, <<"Proof incomplete: unresolved goals remain">>)
                ELSE replayed.errors
  IN  FormalReturns([valid |-> errors = <<>>, errors |-> errors])

(***************************************************************************)
(* The calls made on a FormalLogicEngine: generateFormalProof on the       *)
(* request, applyTactic with every tactic name and one that is no tactic,  *)
(* validateProof on the derivation generateFormalProof returned, as it is  *)
(* or changed by the caller.                                               *)
(***************************************************************************)
TacticNames ==
  {"intros", "apply", "unfold", "simpl", "assumption", "split", "left", "right", "auto"}

\* the proposition and the proof of formal-logic.spec.ts
TestProposition ==
  Proposition(<<"t","e","s","t","_","p","r","o","p">>, Term("proposition", <<"T","e","s","t","P","r","o","p">>, <<>>),
              <<Term("predicate", <<"A","s","s","u","m","p","t","i","o","n","1">>, <<>>)>>,
              Term("proposition", <<"G","o","a","l">>, <<>>))

TestProof ==
  [id |-> <<"t","e","s","t","_","p","r","o","o","f">>, proposition |-> <<"t","e","s","t","_","t","h","e","o","r","e","m">>,
   tactics |-> <<Tactic("intros"), Tactic("assumption")>>,
   qed |-> TRUE, assumptions |-> <<<<"h","y","p","o","t","h","e","s","i","s","1">>>>]

GoalPropositions(req, t) ==
  {TestProposition, initializeAxioms.penetrationLaw}
  \cup (IF req.targetEffectsType = "array" THEN {formulateMainTheorem(req, t)} ELSE {})

\* the derivation as returned, with a tactic that is none added at its end or at its
\* start, marked as not closed, and cut down to intros or to intros and assumption
ChangedProofs(proof) ==
  { proof,
    [proof EXCEPT !.tactics = Append(@, Tactic("auto"))],
    [proof EXCEPT !.tactics = <<Tactic("auto")>> \o @],
    [proof EXCEPT !.qed = FALSE],
    [proof EXCEPT !.tactics = <<>>, !.qed = FALSE],
    [proof EXCEPT !.tactics = <<Tactic("intros")>>, !.qed = FALSE],
    [proof EXCEPT !.tactics = <<Tactic("intros"), Tactic("assumption")>>, !.qed = FALSE] }

ProofsToValidate(call) ==
  {TestProof}
  \cup (IF call # Null /\ call.op = "generateFormalProof" /\ ~call.threw
        THEN ChangedProofs(call.value) ELSE {})

FormalCall(op, args, outcomeOfCall) ==
  [op |-> op, args |-> args, threw |-> outcomeOfCall.threw, error |-> outcomeOfCall.error,
   value |-> outcomeOfCall.value]

\* the engine copies the hypothesis into a term: no hypothesis and one hypothesis do
FormalRequests == { req \in Requests : req.hypothesis \in {<<>>, HyaluronicHypothesis} }

FormalInit ==
  /\ request \in FormalRequests
  /\ pc = "Idle"
  /\ candidates = <<>>
  /\ analysis = NoAnalysis
  /\ result = Null
  /\ contextHistory = <<>>
  /\ now = StartTime
  /\ cognitiveState = initializeCognitiveState
  /\ updates = 0
  /\ GraphIdle
  /\ TensorIdle
  /\ FormalIdle
  /\ OrderIdle
  /\ PenetrationIdle
  /\ WeightsIdle
  /\ AssistantIdle
  /\ CallsIdle

formalFrame ==
  UNCHANGED <<request, pc, now, candidates, analysis, result, contextHistory,
              cognitiveState, updates, graphVars, tensorVars, theorems, orderVars, penetrationVars, weightVars, assistantVars, callVars>>

GenerateFormalProof ==
  /\ formalCall' = FormalCall("generateFormalProof", request,
                              generateFormalProof(request, now))
  /\ formalFrame

ApplyTactic ==
  /\ \E name \in TacticNames, proposition \in GoalPropositions(request, now) :
       formalCall' = FormalCall("applyTactic",
                                [tactic |-> Tactic(name), proposition |-> proposition],
                                applyTactic(Tactic(name), proposition))
  /\ formalFrame

ValidateProof ==
  /\ \E proof \in ProofsToValidate(formalCall) :
       formalCall' = FormalCall("validateProof", proof, validateProof(theorems, proof))
  /\ formalFrame

(***************************************************************************)
(* FormulationProofAssistant (core.ts): verifyFormulation                  *)
(***************************************************************************)
MaxCoreCalls == 2

coreCreateAssumptionStep(req, t) ==
  [id |-> <<"a","s","s","u","m","p","t","i","o","n","_">> \o Digits(t),
   type |-> "assumption",
   statement |-> <<"A","s","s","u","m","e",":"," ">> \o req.hypothesis,
   premises |-> <<>>,
   rule |-> "initial_hypothesis",
   confidence |-> Num(1),
   evidence |-> <<Evidence(<<"e","v","i","d","e","n","c","e","_">>, t, "theoretical", "user_hypothesis", Dec(800), Num(1))>>]

\* the step of the nested loops at i < j, counted from 0 as in the id
coreCompatibilityStep(req, i, j, t) ==
  LET ing1 == req.ingredients[i + 1]
      ing2 == req.ingredients[j + 1]
  IN  [id |-> <<"c","o","m","p","a","t","i","b","i","l","i","t","y","_">> \o Digits(i) \o Us \o Digits(j) \o Us \o Digits(t),
       type |-> "verification",
       statement |-> <<"I","n","g","r","e","d","i","e","n","t","s"," ">> \o ing1.label \o <<" ","a","n","d"," ">> \o ing2.label \o <<" ","a","r","e"," ","c","o","m","p","a","t","i","b","l","e">>,
       premises |-> << <<"i","n","g","r","e","d","i","e","n","t","_">> \o ing1.id, <<"i","n","g","r","e","d","i","e","n","t","_">> \o ing2.id >>,
       rule |-> "compatibility_check",
       confidence |-> Dec(800),
       evidence |-> <<Evidence(<<"c","o","m","p","a","t","_","e","v","i","d","e","n","c","e","_">>, t, "theoretical", "compatibility_database",
                               Dec(800), Dec(900))>>]

verifyIngredientCompatibility(req, t) ==
  LET pairs == CompatibilityPairs(Len(req.ingredients), 1, 2)
  IN  Array([k \in 1..Len(pairs) |-> coreCompatibilityStep(req, pairs[k][1] - 1, pairs[k][2] - 1, t)])

corePenetrationStep(ingredient, t) ==
  [id |-> <<"p","e","n","e","t","r","a","t","i","o","n","_">> \o ingredient.id \o Us \o Digits(t),
   type |-> "deduction",
   statement |-> ingredient.label \o <<" ","c","a","n"," ","p","e","n","e","t","r","a","t","e"," ","t","o"," ","5","0","μ","m"," ","d","e","p","t","h">>,
   premises |-> << <<"i","n","g","r","e","d","i","e","n","t","_">> \o ingredient.id, <<"s","k","i","n","_","m","o","d","e","l">> >>,
   rule |-> "penetration_model",
   confidence |-> Dec(700),
   evidence |-> <<Evidence(<<"p","e","n","e","t","r","a","t","i","o","n","_","e","v","i","d","e","n","c","e","_">>, t, "computational", "penetration_model",
                           Dec(700), Dec(800))>>]

coreModelSkinPenetration(req, t) ==
  Array([i \in 1..Len(req.ingredients) |-> corePenetrationStep(req.ingredients[i], t)])

coreEffectStep(effect, t) ==
  [id |-> <<"e","f","f","e","c","t","_">> \o effect.ingredientId \o Us \o Digits(t),
   type |-> "verification",
   statement |-> effect.effectType \o <<" ","c","a","n"," ","b","e"," ","a","c","h","i","e","v","e","d"," ","i","n"," ">> \o effect.targetLayer,
   premises |-> << <<"i","n","g","r","e","d","i","e","n","t","_">> \o effect.ingredientId, <<"l","a","y","e","r","_">> \o effect.targetLayer >>,
   rule |-> "effect_verification",
   confidence |-> Dec(750),
   evidence |-> <<Evidence(<<"e","f","f","e","c","t","_","e","v","i","d","e","n","c","e","_">>, t, "literature", "scientific_literature",
                           Dec(800), Dec(900))>>]

verifyTargetEffects(req, t) ==
  Array([i \in 1..Len(req.targetEffects) |-> coreEffectStep(req.targetEffects[i], t)])

coreSafetyStep(constraint, t) ==
  [id |-> <<"s","a","f","e","t","y","_">> \o constraint.type \o Us \o Digits(t),
   type |-> "verification",
   statement |-> <<"S","a","f","e","t","y"," ","c","o","n","s","t","r","a","i","n","t"," ">> \o constraint.type \o <<":">> \o constraint.parameter
                 \o <<" ","i","s"," ","s","a","t","i","s","f","i","e","d">>,
   premises |-> << <<"f","o","r","m","u","l","a","t","i","o","n","_","i","n","g","r","e","d","i","e","n","t","s">>, <<"s","a","f","e","t","y","_","d","a","t","a","b","a","s","e">> >>,
   rule |-> "safety_verification",
   confidence |-> Dec(950),
   evidence |-> <<Evidence(<<"s","a","f","e","t","y","_","e","v","i","d","e","n","c","e","_">>, t, "experimental", "safety_database",
                           Dec(950), Num(1))>>]

verifySafetyConstraints(req, t) ==
  Array([i \in 1..Len(req.constraints) |-> coreSafetyStep(req.constraints[i], t)])

calculateOverallConfidence(steps) == Mean(Confidences(steps))

createConclusionStep(req, steps, t) ==
  LET overallConfidence == calculateOverallConfidence(steps)
  IN  [id |-> <<"c","o","n","c","l","u","s","i","o","n","_">> \o Digits(t),
       type |-> "conclusion",
       statement |->
         IF Gt(overallConfidence, Dec(700))
         THEN <<"T","h","e"," ","h","y","p","o","t","h","e","s","i","s"," ">> \o <<"\"">> \o req.hypothesis \o <<"\"">> \o <<" ","i","s"," ","l","i","k","e","l","y"," ","v","a","l","i","d">>
         ELSE <<"T","h","e"," ","h","y","p","o","t","h","e","s","i","s"," ">> \o <<"\"">> \o req.hypothesis \o <<"\"">>
              \o <<" ","r","e","q","u","i","r","e","s"," ","f","u","r","t","h","e","r"," ","i","n","v","e","s","t","i","g","a","t","i","o","n">>,
       premises |-> Array([i \in 1..Len(steps) |-> steps[i].id]),
       rule |-> "logical_synthesis",
       confidence |-> overallConfidence,
       evidence |-> <<>>]

\* the number of steps of confidence > 0.5 over the number of steps
coreProofValidity(steps) ==
  Over(Num(Cardinality({ i \in 1..Len(steps) : Gt(steps[i].confidence, Dec(500)) })),
       Num(Len(steps)))

synthesizeConclusion(steps) ==
  IF Gt(coreProofValidity(steps), Dec(700))
  THEN "The formulation hypothesis is supported by the available evidence"
  ELSE "The formulation hypothesis requires additional validation"

coreProofCompleteness(steps) ==
  LET presentTypes == { steps[i].type : i \in 1..Len(steps) }
  IN  Q(Cardinality({"assumption", "verification", "conclusion"} \cap presentTypes), 3)

RECURSIVE totalRelevance(_, _, _)
\* totalRelevance after the first n steps
totalRelevance(steps, context, n) ==
  IF n = 0 THEN Num(0)
  ELSE LET step == steps[n]
           focus == IF \E i \in 1..Len(context.activeIngredients) :
                         includes(step.statement, context.activeIngredients[i])
                    THEN Dec(200) ELSE Num(0)
           goal == IF includes(step.statement, context.currentGoal) THEN Dec(300) ELSE Num(0)
       IN  Plus(totalRelevance(steps, context, n - 1), Plus(Plus(Dec(500), focus), goal))

coreCognitiveRelevance(steps, context) ==
  MathMin(Over(totalRelevance(steps, context, Len(steps)), Num(Len(steps))), Num(1))

generateProof(req, context, t) ==
  LET before == <<coreCreateAssumptionStep(req, t)>>
                \o verifyIngredientCompatibility(req, t)
                \o coreModelSkinPenetration(req, t)
                \o verifyTargetEffects(req, t)
                \o verifySafetyConstraints(req, t)
      steps == before \o <<createConclusionStep(req, before, t)>>
  IN  [id |-> <<"p","r","o","o","f","_">> \o Digits(t), hypothesis |-> req.hypothesis,
       conclusion |-> synthesizeConclusion(steps), steps |-> steps,
       validity |-> coreProofValidity(steps),
       completeness |-> coreProofCompleteness(steps),
       cognitiveRelevance |-> coreCognitiveRelevance(steps, context)]

coreValidateProof(proof) ==
  [isValid |-> Gt(proof.validity, Dec(500)) /\ Gt(proof.completeness, Dec(600)),
   confidence |-> MathMin(proof.validity, proof.completeness),
   warnings |-> IF Lt(proof.validity, Dec(700))
                THEN <<"Low proof validity - consider additional evidence">> ELSE <<>>]

coreGenerateRecommendations(proof) ==
  [suggestions |->
     (IF Lt(proof.validity, Dec(700))
      THEN <<"Consider adding more supporting evidence for ingredient interactions">> ELSE <<>>)
     \o (IF Lt(proof.completeness, Dec(800))
         THEN <<"Additional verification steps may strengthen the proof">> ELSE <<>>),
   alternatives |-> <<>>]

RECURSIVE coreBoostedWeights(_, _, _)
\* relevanceWeights after the forEach over the first n active ingredients
coreBoostedWeights(w, context, n) ==
  IF n = 0 THEN w
  ELSE LET before == coreBoostedWeights(w, context, n - 1)
           ingredientId == context.activeIngredients[n]
       IN  MapSet(before, ingredientId, Plus(OrZero(MapGet(before, ingredientId)), Dec(100)))

\* [goal, the first three active ingredients, skinCondition].filter(Boolean)
coreAttentionalFocus(context) ==
  LET ings == context.activeIngredients
      items == <<context.currentGoal>>
               \o SubSeq(ings, 1, IF Len(ings) < 3 THEN Len(ings) ELSE 3)
               \o <<context.skinCondition>>
  IN  SelectSeq(items, LAMBDA s : s # <<>>)

coreUpdateCognitiveState(cog, context, t) ==
  [relevanceWeights |-> coreBoostedWeights(cog.relevanceWeights, context,
                                           Len(context.activeIngredients)),
   attentionalFocus |-> coreAttentionalFocus(context),
   memoryActivation |-> [lastVerification |-> t],
   uncertaintyLevels |-> cog.uncertaintyLevels]

\* requests of the declared type: a hypothesis or none, no ingredient, one or
\* two, and at most one target effect and one constraint
CoreRequests ==
  { [hypothesis |-> h, hypothesisType |-> "string", ingredients |-> il,
     targetEffects |-> el, targetEffectsType |-> "array", constraints |-> cl] :
      h \in { <<>>, HyaluronicHypothesis, LinkedHypothesis },
      il \in { SubSeq(IngredientPool, 1, n) : n \in 0..MaxIngredients },
      el \in { SubSeq(EffectPool, 1, n) : n \in 0..MaxEffects },
      cl \in { SubSeq(ConstraintPool, 1, n) : n \in 0..MaxConstraints } }

CoreInit ==
  /\ EngineIdle
  /\ now = StartTime
  /\ cognitiveState = Null
  /\ updates = 0
  /\ GraphIdle
  /\ TensorIdle
  /\ FormalIdle
  /\ OrderIdle
  /\ PenetrationIdle
  /\ WeightsIdle
  /\ CallsIdle
  /\ assistant = [cognitiveState |-> [relevanceWeights |-> EmptyMap,
                                      attentionalFocus |-> <<>>,
                                      memoryActivation |-> <<>>,
                                      uncertaintyLevels |-> <<>>],
                  calls |-> 0, request |-> Null, result |-> Null]

\* one verifyFormulation call; no step of it throws for a request of the declared type
VerifyFormulation ==
  /\ assistant # Null
  /\ assistant.calls < MaxCoreCalls
  /\ \E req \in CoreRequests :
       LET context == createRelevanceContext(req)
           proof == generateProof(req, context, now)
           verdict == coreValidateProof(proof)
           recommendations == coreGenerateRecommendations(proof)
       IN  assistant' =
             [cognitiveState |-> coreUpdateCognitiveState(assistant.cognitiveState, context, now),
              calls |-> assistant.calls + 1,
              request |-> req,
              result |-> [isValid |-> verdict.isValid,
                          confidence |-> verdict.confidence,
                          proof |-> proof,
                          warnings |-> verdict.warnings,
                          recommendations |-> recommendations.suggestions,
                          alternativeFormulations |-> recommendations.alternatives]]
  /\ UNCHANGED <<request, pc, now, candidates, analysis, result, contextHistory,
                 cognitiveState, updates, graphVars, tensorVars, formalVars, orderVars,
                 penetrationVars, weightVars, callVars>>

(***************************************************************************)
(* orderStepsLogically, followed one pass of its while loop at a time      *)
(***************************************************************************)
MaxOrderedSteps == 3

ProofStep(id, type, statement, premises) ==
  [id |-> id, type |-> type, statement |-> statement, premises |-> premises,
   rule |-> "given", confidence |-> Dec(900), evidence |-> <<>>]

\* steps as the create...Step methods build them (two constraints of one type get
\* one id), with steps whose premises form a cycle, name the step itself or are
\* never met, a step that waits for another, and a step of type conclusion
OrderedStepPool ==
  << ProofStep(<<"a","s","s","u","m","p","t","i","o","n","_","1">>, "assumption", <<"A","s","s","u","m","e",":"," ","f","o","r","m","u","l","a","t","i","o","n","_","p","a","r","a","m","e","t","e","r","s">>, <<>>),
     ProofStep(<<"c","o","n","s","t","r","a","i","n","t","_","p","h","_","1">>, "verification", <<"C","o","n","s","t","r","a","i","n","t"," ","p","h",":","m","i","n"," ","i","s"," ","s","a","t","i","s","f","i","e","d">>,
               << <<"f","o","r","m","u","l","a","t","i","o","n","_","p","a","r","a","m","e","t","e","r","s">> >>),
     ProofStep(<<"c","o","n","s","t","r","a","i","n","t","_","p","h","_","1">>, "verification", <<"C","o","n","s","t","r","a","i","n","t"," ","p","h",":","m","a","x"," ","i","s"," ","s","a","t","i","s","f","i","e","d">>,
               << <<"f","o","r","m","u","l","a","t","i","o","n","_","p","a","r","a","m","e","t","e","r","s">> >>),
     ProofStep(<<"a">>, "deduction", <<"f","i","r","s","t"," ","o","f"," ","a"," ","c","y","c","l","e">>, << <<"b">> >>),
     ProofStep(<<"b">>, "deduction", <<"s","e","c","o","n","d"," ","o","f"," ","a"," ","c","y","c","l","e">>, << <<"a">> >>),
     ProofStep(<<"s">>, "deduction", <<"r","e","s","t","s"," ","o","n"," ","i","t","s","e","l","f">>, << <<"s">> >>),
     ProofStep(<<"s","a","f","e","t","y","_","R","1","_","1">>, "verification", <<"I","n","g","r","e","d","i","e","n","t"," ","R","e","t","i","n","o","l"," ","m","e","e","t","s"," ","s","a","f","e","t","y"," ","r","e","q","u","i","r","e","m","e","n","t","s">>,
               << <<"i","n","g","r","e","d","i","e","n","t","_","R","1">> >>),
     ProofStep(<<"d">>, "deduction", <<"f","o","l","l","o","w","s"," ","f","r","o","m"," ","t","h","e"," ","c","o","n","s","t","r","a","i","n","t">>, << <<"c","o","n","s","t","r","a","i","n","t","_","p","h","_","1">> >>),
     ProofStep(<<"c","o","n","c","l","u","s","i","o","n","_","1">>, "conclusion", <<"T","h","e"," ","h","y","p","o","t","h","e","s","i","s"," ","h","o","l","d","s">>, <<>>) >>

OrderedStepLists ==
  { PickAll(OrderedStepPool, ixs) : ixs \in SeqsUpTo(OrderedStepPool, MaxOrderedSteps) }

OrderInit ==
  /\ EngineIdle
  /\ now = StartTime
  /\ cognitiveState = initializeCognitiveState
  /\ updates = 0
  /\ GraphIdle
  /\ TensorIdle
  /\ FormalIdle
  /\ PenetrationIdle
  /\ WeightsIdle
  /\ AssistantIdle
  /\ CallsIdle
  /\ \E steps \in OrderedStepLists :
       ordering = [steps |-> steps, ordered |-> <<>>, processed |-> {}, added |-> FALSE,
                   at |-> "called"]

orderFrame ==
  UNCHANGED <<request, pc, now, candidates, analysis, result, contextHistory,
              cognitiveState, updates, graphVars, tensorVars, formalVars, penetrationVars, weightVars, assistantVars, callVars>>

\* the assumptions are pushed and let added = true
AddAssumptions ==
  /\ ordering.at = "called"
  /\ LET assumptions == SelectSeq(ordering.steps, LAMBDA s : s.type = "assumption")
     IN  ordering' = [ordering EXCEPT
                        !.ordered = assumptions,
                        !.processed = { assumptions[i].id : i \in 1..Len(assumptions) },
                        !.added = TRUE,
                        !.at = "while"]
  /\ orderFrame

\* the condition of the while loop
OrderContinues == ordering.added /\ Cardinality(ordering.processed) < Len(ordering.steps)

\* one run of the body of the while loop
WhilePass ==
  /\ ordering.at = "while"
  /\ OrderContinues
  /\ LET st == OrderPass(ordering.steps, 1,
                         [ordered |-> ordering.ordered, processed |-> ordering.processed,
                          added |-> FALSE])
     IN  ordering' = [ordering EXCEPT !.ordered = st.ordered, !.processed = st.processed,
                                      !.added = st.added]
  /\ orderFrame

\* return ordered
ReturnOrdered ==
  /\ ordering.at = "while"
  /\ ~OrderContinues
  /\ ordering' = [ordering EXCEPT !.at = "returned"]
  /\ orderFrame

(***************************************************************************)
(* FormulationVerificationEngine.modelSkinPenetration                      *)
(***************************************************************************)
\* TensorOperationsEngine.calculatePenetrationDepth
calculatePenetrationDepth(molecularWeight, logP, concentration) ==
  executeOperation("penetration_depth",
                   << createScalarField(molecularWeight, "daltons", "Molecular weight"),
                      createScalarField(logP, "unitless", "Partition coefficient"),
                      createScalarField(concentration, "mg/ml", "Concentration") >>)

\* the entry the loop body pushes for one ingredient
penetrationEntry(ingredient) ==
  LET penetrationField == calculatePenetrationDepth(ingredient.molecularWeight,
                                                    ingredient.logP,
                                                    ingredient.concentration)
  IN  IF penetrationField.threw
      THEN [ingredientId |-> ingredient.id, penetrationDepth |-> Num(0),
            confidence |-> Num(0)]
      ELSE [ingredientId |-> ingredient.id,
            penetrationDepth |-> At(penetrationField.field.data, 0),
            confidence |-> Dec(800)]

RECURSIVE modelSkinPenetrationStopping(_)
\* a loop without the try block: the first failure ends the batch
modelSkinPenetrationStopping(ingredients) ==
  IF ingredients = <<>> THEN <<>>
  ELSE IF calculatePenetrationDepth(Head(ingredients).molecularWeight, Head(ingredients).logP,
                                    Head(ingredients).concentration).threw
  THEN <<>>
  ELSE <<penetrationEntry(Head(ingredients))>> \o modelSkinPenetrationStopping(Tail(ingredients))

RECURSIVE modelSkinPenetration(_)
\* for (const ingredient of ingredients) { try { ... } catch { ... } }
modelSkinPenetration(ingredients) ==
  IF ingredients = <<>> THEN <<>>
  ELSE <<penetrationEntry(Head(ingredients))>> \o modelSkinPenetration(Tail(ingredients))

MaxPenetrationIngredients == 3

\* two ingredients that penetrate, and ingredients with concentration 0, -2 and -0.5
\* and with a logP that is not a number
PenetrationPool ==
  << [id |-> <<"R","1">>, molecularWeight |-> Num(1000), logP |-> Num(1), concentration |-> Num(1)],
     [id |-> <<"R","2">>, molecularWeight |-> Num(2000), logP |-> Num(3), concentration |-> Num(4)],
     [id |-> <<"R","3">>, molecularWeight |-> Num(1000), logP |-> Num(1), concentration |-> Num(0)],
     [id |-> <<"R","4">>, molecularWeight |-> Num(1000), logP |-> Num(1), concentration |-> Num(-2)],
     [id |-> <<"R","5">>, molecularWeight |-> Num(1000), logP |-> NaN, concentration |-> Num(1)],
     [id |-> <<"R","6">>, molecularWeight |-> Num(2000), logP |-> Num(1), concentration |-> Q(-1, 2)] >>

PenetrationLists ==
  { PickAll(PenetrationPool, ixs) : ixs \in SeqsUpTo(PenetrationPool, MaxPenetrationIngredients) }

PenetrationInit ==
  /\ EngineIdle
  /\ now = StartTime
  /\ cognitiveState = initializeCognitiveState
  /\ updates = 0
  /\ GraphIdle
  /\ TensorIdle
  /\ FormalIdle
  /\ OrderIdle
  /\ WeightsIdle
  /\ AssistantIdle
  /\ CallsIdle
  /\ \E ingredients \in PenetrationLists :
       penetration = [ingredients |-> ingredients, results |-> <<>>, at |-> "called"]

ModelSkinPenetration ==
  /\ penetration.at = "called"
  /\ penetration' = [penetration EXCEPT !.results = modelSkinPenetration(penetration.ingredients),
                                      !.at = "returned"]
  /\ UNCHANGED <<request, pc, now, candidates, analysis, result, contextHistory,
                 cognitiveState, updates, graphVars, tensorVars, formalVars, orderVars, weightVars, assistantVars, callVars>>

(***************************************************************************)
(* Several verifyFormulationHypothesis calls in flight on one engine: each *)
(* call has its own request and locals, and all share the Realizer's       *)
(* context history, the cognitive state and the clock.                     *)
(***************************************************************************)
NumCalls == 2

MaxTicks == 1

\* the scenario, two effects on one ingredient, no ingredient, a hypothesis that is a number
CallRequests ==
  { ScenarioRequest,
    TwoEffectsRequest,
    [ScenarioRequest EXCEPT !.ingredients = <<>>],
    [ScenarioRequest EXCEPT !.hypothesis = <<"4","2">>, !.hypothesisType = "number"] }

\* the candidates when the clock moves on by one after the first k are created
generateCandidateStepsAcrossTick(req, t, k) ==
  LET atT == generateCandidateSteps(req, t)
      after == generateCandidateSteps(req, t + 1)
  IN  Array([i \in 1..Len(atT) |-> IF i <= k THEN atT[i] ELSE after[i]])

CallsInit ==
  /\ request = Null
  /\ pc = "Idle"
  /\ candidates = <<>>
  /\ analysis = NoAnalysis
  /\ result = Null
  /\ contextHistory = <<>>
  /\ now = StartTime
  /\ cognitiveState = initializeCognitiveState
  /\ updates = 0
  /\ GraphIdle
  /\ TensorIdle
  /\ FormalIdle
  /\ OrderIdle
  /\ PenetrationIdle
  /\ WeightsIdle
  /\ AssistantIdle
  /\ \E requests \in [1..NumCalls -> CallRequests] :
       verifications = [c \in 1..NumCalls |->
                          [request |-> requests[c], pc |-> "Validating", candidates |-> <<>>,
                           analysis |-> NoAnalysis, result |-> Null]]

callFrame ==
  <<request, pc, candidates, analysis, result, cognitiveState, updates, graphVars,
    tensorVars, formalVars, orderVars, penetrationVars, weightVars, assistantVars>>

\* the catch block of call c
CallFails(c, error) ==
  verifications' = [verifications EXCEPT
                      ![c].pc = "Failed",
                      ![c].result = createFailureResult(verifications[c].request.hypothesis,
                                                        error, now)]

\* Phase 1 of call c
CallValidate(c) ==
  /\ verifications[c].pc = "Validating"
  /\ LET error == validateRequest(verifications[c].request)
     IN  IF error = NoError
         THEN verifications' = [verifications EXCEPT ![c].pc = "Generating"]
         ELSE CallFails(c, error)
  /\ UNCHANGED <<now, contextHistory>>
  /\ UNCHANGED callFrame

\* Phase 2 of call c: the clock may move on while the candidates are created
CallGenerate(c) ==
  /\ verifications[c].pc = "Generating"
  /\ LET req == verifications[c].request
     IN  IF req.targetEffectsType = "array"
         THEN \E k \in 0..Len(generateCandidateSteps(req, now)) :
                /\ k < Len(generateCandidateSteps(req, now)) => now < StartTime + MaxTicks
                /\ verifications' =
                     [verifications EXCEPT
                        ![c].pc = "Realizing",
                        ![c].candidates = generateCandidateStepsAcrossTick(req, now, k)]
                /\ now' = IF k < Len(generateCandidateSteps(req, now)) THEN now + 1 ELSE now
         ELSE /\ CallFails(c, "request.targetEffects is not iterable")
              /\ UNCHANGED now
  /\ UNCHANGED contextHistory
  /\ UNCHANGED callFrame

\* Phase 3 of call c: the context is recorded in the history all calls share
CallRealize(c) ==
  /\ verifications[c].pc = "Realizing"
  /\ LET req == verifications[c].request
         context == createRelevanceContext(req)
     IN  /\ contextHistory' = updateContextHistory(contextHistory, context)
         /\ IF req.hypothesisType = "string"
            THEN verifications' =
                   [verifications EXCEPT
                      ![c].pc = "Deriving",
                      ![c].analysis = realizeRelevance(verifications[c].candidates, context,
                                                       getCognitiveState(cognitiveState))]
            ELSE CallFails(c, "context.currentGoal.toLowerCase is not a function")
  /\ UNCHANGED now
  /\ UNCHANGED callFrame

\* Phases 4 to 6 of call c
CallDerive(c) ==
  /\ verifications[c].pc = "Deriving"
  /\ \E t \in {now, now + 1} :
       /\ t <= StartTime + MaxTicks
       /\ LET req == verifications[c].request
              proof == buildFormalProof(verifications[c].analysis.relevantSteps, req, t)
              verdict == validateProofSoundness(proof)
              recommendations == generateRecommendations(proof, req)
          IN  verifications' =
                [verifications EXCEPT
                   ![c].pc = "Validated",
                   ![c].result = [isValid |-> verdict.isValid,
                                  confidence |-> verdict.confidence,
                                  proof |-> proof,
                                  warnings |-> verdict.warnings,
                                  recommendations |-> recommendations.suggestions,
                                  alternativeFormulations |-> recommendations.alternatives]]
       /\ now' = t
  /\ UNCHANGED contextHistory
  /\ UNCHANGED callFrame

(***************************************************************************)
(* updateRelevanceWeights over a long run of updateCognitiveState calls.   *)
(* A weight is a whole number of billionths, so that a weight can be       *)
(* followed down to the threshold; a product is cut off at the billionth.  *)
(***************************************************************************)
MaxActiveUpdates == 2

MaxWeightUpdates == 50

\* 0.2, 0.1 and 0.01 in billionths
NamedInGoal == 200000000

NotNamedInGoal == 100000000

PruneBelow == 10000000

\* weight * (1 - memoryDecayRate) with memoryDecayRate = 0.1
decayedWeight(weight) == 9 * (weight \div 10) + (9 * (weight % 10)) \div 10

RECURSIVE boostedBillionths(_, _, _)
\* relevanceWeights after the forEach over the first n active ingredients
boostedBillionths(w, context, n) ==
  IF n = 0 THEN w
  ELSE LET before == boostedBillionths(w, context, n - 1)
           ingredientId == context.activeIngredients[n]
           currentWeight == IF ingredientId \in DOMAIN before THEN before[ingredientId] ELSE 0
           goalRelevance ==
             IF includes(toLowerCase(context.currentGoal), toLowerCase(ingredientId))
             THEN NamedInGoal ELSE NotNamedInGoal
       IN  MapSet(before, ingredientId, currentWeight + goalRelevance)

\* updateRelevanceWeights that leaves the weights below 0.01 in the map
updateRelevanceBillionthsKeeping(w, context) ==
  LET boosted == boostedBillionths(w, context, Len(context.activeIngredients))
  IN  [k \in DOMAIN boosted |-> decayedWeight(boosted[k])]

updateRelevanceBillionths(w, context) ==
  LET boosted == boostedBillionths(w, context, Len(context.activeIngredients))
  IN  [k \in { x \in DOMAIN boosted : ~(decayedWeight(boosted[x]) < PruneBelow) } |->
         decayedWeight(boosted[k])]

\* a goal that names ingredient r1 in capitals, and lists of active ingredients
WeightContexts ==
  { [currentGoal |-> goal, activeIngredients |-> ings] :
      goal \in { <<"I","n","g","r","e","d","i","e","n","t"," ","R","1"," ","h","y","d","r","a","t","e","s">>, HyaluronicHypothesis },
      ings \in { <<>>, << <<"r","1">> >>, << <<"r","2">>, <<"r","1">> >> } }

\* the last context a call was given
WeightsInit ==
  /\ EngineIdle
  /\ now = StartTime
  /\ cognitiveState = initializeCognitiveState
  /\ updates = 0
  /\ GraphIdle
  /\ TensorIdle
  /\ FormalIdle
  /\ OrderIdle
  /\ PenetrationIdle
  /\ AssistantIdle
  /\ CallsIdle
  /\ weightRun = [relevanceWeights |-> <<>>, context |-> Null]

\* one updateCognitiveState call, of which updateRelevanceWeights is followed; after
\* the first MaxActiveUpdates calls no ingredient is active any more
UpdateRelevanceWeights ==
  /\ updates < MaxWeightUpdates
  /\ \E context \in WeightContexts :
       /\ updates >= MaxActiveUpdates => context.activeIngredients = <<>>
       /\ weightRun' = [relevanceWeights |-> updateRelevanceBillionths(weightRun.relevanceWeights,
                                                                    context),
                      context |-> context]
  /\ updates' = updates + 1
  /\ UNCHANGED <<request, pc, now, candidates, analysis, result, contextHistory,
                 cognitiveState, graphVars, tensorVars, formalVars, orderVars,
                 penetrationVars, assistantVars, callVars>>

(***************************************************************************)
(* One call of verifyFormulationHypothesis on a new engine                 *)
(***************************************************************************)
vars == <<request, pc, now, candidates, analysis, result, contextHistory, cognitiveState,
          updates, proofGraphs, nodeIndexes, edgeIndexes, returned,
          operationName, inputs, outcome, theorems, formalCall, ordering, penetration, weightRun, assistant, verifications>>

Init == EngineInit

Next == Validate \/ Generate \/ Realize \/ Derive

Spec == Init /\ [][Next]_vars

\* The call is one async function that awaits nothing but its own steps, so the
\* runtime runs it to its end: a call that is in a stage leaves it.  Every step of
\* Next changes pc and one is possible exactly in the stages of Running, so this is
\* weak fairness of Next, stated on pc.
Advance == pc \in Running /\ pc' \in (Running \cup Ended) \ {pc}

SpecLive == Spec /\ WF_pc(Advance)

(***************************************************************************)
(* A CognitiveAccountingSystem that is updated with one context after      *)
(* another                                                                 *)
(***************************************************************************)
NextCognitive == UpdateCognitiveState

SpecCognitive == CognitiveInit /\ [][NextCognitive]_vars

(***************************************************************************)
(* A HypergraphIntegrationEngine on which graphs are created, integrated   *)
(* with vessel data and queried, in any order                              *)
(***************************************************************************)
NextHypergraph == CreateProofHypergraph \/ IntegrateWithVesselHypergraph \/ QueryProofSupport

SpecHypergraph == GraphInit /\ [][NextHypergraph]_vars

NextTensor == ExecuteOperation

SpecTensor == TensorInit /\ [][NextTensor]_vars

NextFormal == GenerateFormalProof \/ ApplyTactic \/ ValidateProof

SpecFormal == FormalInit /\ [][NextFormal]_vars

(***************************************************************************)
(* One call of orderStepsLogically on a list of steps                      *)
(***************************************************************************)
NextOrdering == AddAssumptions \/ WhilePass \/ ReturnOrdered

SpecOrdering == OrderInit /\ [][NextOrdering]_vars

\* The function is synchronous: the runtime runs it until it returns or loops for
\* ever, so a step that is possible is taken.
SpecOrderingLive == SpecOrdering /\ WF_vars(NextOrdering)

(***************************************************************************)
(* One call of modelSkinPenetration on a list of ingredients               *)
(***************************************************************************)
NextPenetration == ModelSkinPenetration

SpecPenetration == PenetrationInit /\ [][NextPenetration]_vars

(***************************************************************************)
(* A long run of updateCognitiveState calls, for the relevance weights     *)
(***************************************************************************)
NextWeights == UpdateRelevanceWeights

SpecWeights == WeightsInit /\ [][NextWeights]_vars

\* the caller goes on calling updateCognitiveState
SpecWeightsLive == SpecWeights /\ WF_vars(NextWeights)

(***************************************************************************)
(* Calls of verifyFormulation on one FormulationProofAssistant             *)
(***************************************************************************)
NextCore == VerifyFormulation

SpecCore == CoreInit /\ [][NextCore]_vars

(***************************************************************************)
(* NumCalls calls of verifyFormulationHypothesis on one engine, one after  *)
(* another or overlapping, interleaved stage by stage                      *)
(***************************************************************************)
NextCalls ==
  \E c \in 1..NumCalls : CallValidate(c) \/ CallGenerate(c) \/ CallRealize(c) \/ CallDerive(c)

SpecCalls == CallsInit /\ [][NextCalls]_vars

(***************************************************************************)
(* Properties of verifyFormulationHypothesis                               *)
(***************************************************************************)
\* the requests the validation is to reject
Rejected(req) ==
  \/ req.hypothesis = <<>>
  \/ Len(req.ingredients) = 0
  \/ \E i \in 1..Len(req.ingredients) :
       req.ingredients[i].id = <<>> \/ req.ingredients[i].label = <<>>
  \/ \E i \in 1..Len(req.constraints) :
       req.constraints[i].type = <<>> \/ req.constraints[i].parameter = <<>>

ValidationMessages ==
  { "Invalid verification request: missing required fields",
    "Invalid ingredient data: <JSON.stringify(ingredient)>",
    "Invalid constraint: <JSON.stringify(constraint)>" }

\* the zero-confidence result: not valid, confidence 0, no steps, all metrics 0
ZeroResult(r) ==
  /\ r # Null
  /\ r.isValid = FALSE
  /\ r.confidence = Num(0)
  /\ r.proof.steps = <<>>
  /\ r.proof.validity = Num(0)
  /\ r.proof.completeness = Num(0)
  /\ r.proof.cognitiveRelevance = Num(0)

\* C1: a request with an empty hypothesis, an empty ingredient list, an ingredient
\* without id or label, or a constraint without type or parameter gets, once it has
\* been validated, the zero result (isValid false, confidence 0, no steps, validity,
\* completeness and cognitive relevance 0) with a warning that carries the
\* validation's message.
C1_RejectedRequestGetsZeroResult ==
  (pc # "Validating" /\ Rejected(request)) =>
     /\ pc = "Failed"
     /\ ZeroResult(result)
     /\ \E i \in 1..Len(result.warnings) : result.warnings[i].error \in ValidationMessages

\* a call that rejected a request for a constraint without its parameter
C1_Witness ==
  /\ pc = "Failed"
  /\ Rejected(request)
  /\ request.hypothesis # <<>>
  /\ \E i \in 1..Len(request.constraints) : request.constraints[i].parameter = <<>>
  /\ result.warnings[1].error = "Invalid constraint: <JSON.stringify(constraint)>"

\* the step a call may take from one stage to the next, and the message it fails with
StageStep ==
  \/ pc = "Validating" /\ pc' = "Generating"
  \/ pc = "Generating" /\ pc' = "Realizing"
  \/ pc = "Realizing" /\ pc' = "Deriving"
  \/ pc = "Deriving" /\ pc' = "Validated"
  \/ /\ pc = "Validating" /\ pc' = "Failed"
     /\ result'.warnings[1].error \in ValidationMessages
  \/ /\ pc = "Generating" /\ pc' = "Failed"
     /\ result'.warnings[1].error = "request.targetEffects is not iterable"
  \/ /\ pc = "Realizing" /\ pc' = "Failed"
     /\ result'.warnings[1].error = "context.currentGoal.toLowerCase is not a function"

\* a result is returned exactly when the call has ended, and a failed call's result
\* is the zero result with one warning
StageResult ==
  /\ pc \in Running \cup Ended
  /\ pc \in Running <=> result = Null
  /\ pc = "Failed" => ZeroResult(result) /\ Len(result.warnings) = 1
  /\ pc = "Validated" => result.proof.steps # <<>>

\* C2: a call goes through Validating, Generating, Realizing, Deriving, Validated in
\* that order; an exception in a stage takes it to Failed, where it has returned the
\* zero result with the exception's message as its warning; a call that has ended
\* stays ended, and every call ends, in Validated or in Failed.
C2_StagesInOrderEndInValidatedOrFailed ==
  /\ [][StageStep]_vars
  /\ []StageResult
  /\ <>[](pc \in Ended)

\* a call that failed in its Realizing stage, two stages after its request was accepted
C2_Witness ==
  /\ pc = "Failed"
  /\ ~Rejected(request)
  /\ request.targetEffectsType = "array"
  /\ ZeroResult(result)
  /\ result.warnings[1].error = "context.currentGoal.toLowerCase is not a function"

hasStepOfType(steps, type) == \E i \in 1..Len(steps) : steps[i].type = type

\* C3: the call on the scenario request returns isValid true, a confidence above 0.5
\* and a proof with a step of each of the types assumption, verification, deduction
\* and conclusion.
C3_ScenarioProofHasAllStepTypes ==
  (request = ScenarioRequest /\ pc \in Ended) =>
     /\ pc = "Validated"
     /\ result.isValid
     /\ Gt(result.confidence, Dec(500))
     /\ \A type \in {"assumption", "verification", "deduction", "conclusion"} :
          hasStepOfType(result.proof.steps, type)

\* C4: the validity of a proof returned by a call that did not fail is the sum of the
\* confidences of all its steps, the conclusion step among them, over their number.
C4_ValidityIsMeanOfStepConfidences ==
  pc = "Validated" =>
     /\ result.proof.steps[Len(result.proof.steps)].type = "conclusion"
     /\ result.proof.validity =
          Over(SumSeq(Confidences(result.proof.steps)), Num(Len(result.proof.steps)))

\* a returned proof whose steps differ in confidence
C4_Witness ==
  /\ pc = "Validated"
  /\ Len(result.proof.steps) >= 3
  /\ \E i \in 1..Len(result.proof.steps) :
       result.proof.steps[i].confidence # result.proof.steps[1].confidence
  /\ ~isNaN(result.proof.validity)

\* C5: in the result of a call whose request the validation accepted, the confidence,
\* the proof's validity, completeness and cognitive relevance and the confidence of
\* every step of the proof are in [0, 1].
C5_ResultValuesInUnitInterval ==
  (pc \in Ended /\ ~Rejected(request)) =>
     /\ InUnit(result.confidence)
     /\ InUnit(result.proof.validity)
     /\ InUnit(result.proof.completeness)
     /\ InUnit(result.proof.cognitiveRelevance)
     /\ \A i \in 1..Len(result.proof.steps) : InUnit(result.proof.steps[i].confidence)

\* the scores realizeRelevance returned for the candidates of the call
ScoresInUnitInterval(scores) == \A id \in DOMAIN scores : InUnit(scores[id])

\* C7: realizeRelevance returns no more relevant steps than it was given candidates,
\* and the salience, coherence, elegance and overall relevance of every candidate are
\* in [0, 1].
C7_RelevanceScoresInUnitInterval ==
  pc \in {"Deriving", "Validated"} =>
     /\ Len(analysis.relevantSteps) <= Len(candidates)
     /\ ScoresInUnitInterval(analysis.salienceScores)
     /\ ScoresInUnitInterval(analysis.coherenceScores)
     /\ ScoresInUnitInterval(analysis.eleganceScores)
     /\ ScoresInUnitInterval(analysis.overallRelevance)

\* C15: when the Realizer has run in a call, the cognitive state it read had been
\* updated from the request: relevanceWeights has an entry for each ingredient of the
\* request, attentionalFocus is not empty and uncertaintyLevels has the keys
\* complexity, information and overall.
C15_CognitiveStateUpdatedBeforeRealizer ==
  pc \in {"Deriving", "Validated"} =>
     /\ \A i \in 1..Len(request.ingredients) :
          request.ingredients[i].id \in DOMAIN cognitiveState.relevanceWeights
     /\ cognitiveState.attentionalFocus # <<>>
     /\ {<<"c","o","m","p","l","e","x","i","t","y">>, <<"i","n","f","o","r","m","a","t","i","o","n">>, <<"o","v","e","r","a","l","l">>}
          \subseteq DOMAIN cognitiveState.uncertaintyLevels

\* premise is the id of one of the first n steps or occurs in the statement of one
SatisfiedBefore(premise, steps, n) ==
  \E j \in 1..n : steps[j].id = premise \/ includes(steps[j].statement, premise)

\* the assumptions come first, every other step but the last follows steps that
\* satisfy its premises, and the last step is the one conclusion
LogicallyOrdered(steps) ==
  /\ \A i \in 1..Len(steps) : \A j \in 1..Len(steps) :
       (steps[i].type = "assumption" /\ steps[j].type # "assumption") => i < j
  /\ \A i \in 1..Len(steps) :
       steps[i].type \notin {"assumption", "conclusion"} =>
          \A k \in 1..Len(steps[i].premises) :
             SatisfiedBefore(steps[i].premises[k], steps, i - 1)
  /\ Len(steps) >= 1
  /\ \A i \in 1..Len(steps) : steps[i].type = "conclusion" <=> i = Len(steps)

\* C16: in the steps of every proof the call builds, the assumption steps come before
\* all others, every premise of a step that is neither assumption nor conclusion is
\* the id of an earlier step or occurs in the statement of an earlier step, and the
\* last step is a conclusion and the only one.
C16_ProofStepsLogicallyOrdered ==
  pc = "Validated" => LogicallyOrdered(result.proof.steps)

\* a proof with a verification or deduction step between assumption and conclusion
C16_Witness ==
  /\ pc = "Validated"
  /\ Len(result.proof.steps) >= 3
  /\ result.proof.steps[2].type \in {"verification", "deduction"}
  /\ Len(result.proof.steps[2].premises) >= 1
  /\ LogicallyOrdered(result.proof.steps)

\* the steps of the returned proof that come before its last step
PriorSteps == SubSeq(result.proof.steps, 1, Len(result.proof.steps) - 1)

ConclusionStep == result.proof.steps[Len(result.proof.steps)]

RECURSIVE TotalConfidence(_, _)
\* the sum of the confidences of the first n steps
TotalConfidence(steps, n) ==
  IF n = 0 THEN Num(0) ELSE Plus(TotalConfidence(steps, n - 1), steps[n].confidence)

MeanOfPrior == Over(TotalConfidence(PriorSteps, Len(PriorSteps)), Num(Len(PriorSteps)))

Supported(hypothesis) ==
  <<"T","h","e"," ","h","y","p","o","t","h","e","s","i","s"," ","\"">> \o hypothesis \o <<"\""," ","i","s"," ","s","u","p","p","o","r","t","e","d"," ","b","y"," ","t","h","e"," ","e","v","i","d","e","n","c","e">>

NeedsInvestigation(hypothesis) ==
  <<"T","h","e"," ","h","y","p","o","t","h","e","s","i","s"," ","\"">> \o hypothesis \o <<"\""," ","r","e","q","u","i","r","e","s"," ","f","u","r","t","h","e","r"," ","i","n","v","e","s","t","i","g","a","t","i","o","n">>

\* C18: the last step of the returned proof has as confidence the arithmetic mean of
\* the confidences of the steps before it and as premises their ids in order; its
\* statement says the hypothesis is supported by the evidence when that mean is
\* greater than 0.7 and that it requires further investigation otherwise (0.7 itself
\* included), and proof.conclusion is that statement.
C18_ConclusionIsMeanOfPriorSteps ==
  pc = "Validated" =>
     /\ ConclusionStep.type = "conclusion"
     /\ ConclusionStep.confidence = MeanOfPrior
     /\ ConclusionStep.premises = [i \in 1..Len(PriorSteps) |-> PriorSteps[i].id]
     /\ ConclusionStep.statement =
          IF Gt(MeanOfPrior, Dec(700)) THEN Supported(request.hypothesis)
          ELSE NeedsInvestigation(request.hypothesis)
     /\ result.proof.conclusion = ConclusionStep.statement

\* a proof whose prior steps have the mean 0.7 itself
C18_Witness ==
  /\ pc = "Validated"
  /\ Len(PriorSteps) >= 2
  /\ MeanOfPrior = Dec(700)
  /\ ConclusionStep.statement = NeedsInvestigation(request.hypothesis)

\* the step types a complete proof of the request holds
RequiredCategories ==
  {"assumption", "verification", "conclusion"}
  \cup (IF Len(request.targetEffects) > 0 THEN {"deduction"} ELSE {})

PresentCategories == { result.proof.steps[i].type : i \in 1..Len(result.proof.steps) }

\* C19: proof.completeness is the number of required step types that occur among the
\* steps of the proof divided by the number of required step types, the required
\* types being assumption, verification and conclusion, and deduction too when the
\* request has a target effect (2/3 for a proof of an assumption and a conclusion for
\* a request without target effects).
C19_CompletenessCountsRequiredCategories ==
  pc = "Validated" =>
     result.proof.completeness =
        Q(Cardinality(RequiredCategories \cap PresentCategories),
          Cardinality(RequiredCategories))

HasGaps == Lt(result.proof.completeness, Dec(700))

HasLowConfidenceStep ==
  \E i \in 1..Len(result.proof.steps) : Lt(result.proof.steps[i].confidence, Dec(500))

BelowThreshold == Lt(result.proof.validity, Dec(600))

PenalizedValidity ==
  Times(Times(result.proof.validity, IF HasGaps THEN Dec(800) ELSE Num(1)),
        IF HasLowConfidenceStep THEN Dec(900) ELSE Num(1))

WarningTexts == { result.warnings[i].text : i \in 1..Len(result.warnings) }

\* C20: the soundness validation of the returned proof gives isValid = false exactly
\* when proof.validity < 0.6, and confidence = min(1, validity x 0.8 when
\* completeness < 0.7 x 0.9 when a step has confidence < 0.5), with one warning for
\* each of the three conditions that holds; so confidence <= validity when validity
\* is in [0, 1].
C20_SoundnessPenalizesWithoutFailing ==
  pc = "Validated" =>
     /\ result.isValid = ~BelowThreshold
     /\ result.confidence = MathMin(PenalizedValidity, Num(1))
     /\ Len(result.warnings) = (IF HasGaps THEN 1 ELSE 0)
                               + (IF HasLowConfidenceStep THEN 1 ELSE 0)
                               + (IF BelowThreshold THEN 1 ELSE 0)
     /\ HasGaps <=> "Proof may have logical gaps - consider additional verification steps"
                       \in WarningTexts
     /\ HasLowConfidenceStep <=>
           "<count> steps have low confidence - additional evidence recommended"
              \in WarningTexts
     /\ BelowThreshold <=> "Proof validity is below acceptable threshold" \in WarningTexts
     /\ (Ge(result.proof.validity, Num(0)) /\ Le(result.proof.validity, Num(1)))
           => Le(result.confidence, result.proof.validity)

\* a proof with gaps and a step of low confidence that is valid all the same
C20_Witness ==
  /\ pc = "Validated"
  /\ HasGaps
  /\ HasLowConfidenceStep
  /\ ~BelowThreshold
  /\ result.isValid
  /\ Lt(result.confidence, result.proof.validity)
  /\ Len(result.warnings) = 2

\* C21: when the validation has rejected the request, the call has ended without a
\* downstream stage: no candidate step was generated, the context history of the
\* Realizer and the CognitiveState are what they were before the call, and the tensor
\* and formal logic engines were not touched.
C21_RejectedRequestRunsNoStage ==
  (pc # "Validating" /\ Rejected(request)) =>
     /\ pc = "Failed"
     /\ candidates = <<>>
     /\ analysis = NoAnalysis
     /\ contextHistory = <<>>
     /\ cognitiveState = initializeCognitiveState
     /\ TensorIdle
     /\ FormalIdle

\* a rejected request that names ingredients, for which steps could have been made
C21_Witness ==
  /\ pc = "Failed"
  /\ Rejected(request)
  /\ Len(request.ingredients) >= 1
  /\ request.hypothesis # <<>>
  /\ candidates = <<>>
  /\ contextHistory = <<>>

\* the candidates at i and j are two steps that were given one id
ShareId(i, j) == i # j /\ candidates[i].id = candidates[j].id

\* how many steps of the returned proof have this id
TimesInProof(id) ==
  Cardinality({ k \in 1..Len(result.proof.steps) : result.proof.steps[k].id = id })

\* C30: the step ids within a returned proof are pairwise distinct, also when candidate
\* steps were created in one clock tick with one id (two target effects on one
\* ingredient, two constraints of one type): of the candidates that share an id, at most
\* one is in the proof.
C30_ProofStepIdsAreDistinct ==
  result # Null =>
    /\ \A i \in 1..Len(result.proof.steps) : \A j \in 1..Len(result.proof.steps) :
         i # j => result.proof.steps[i].id # result.proof.steps[j].id
    /\ \A i \in 1..Len(candidates) : \A j \in 1..Len(candidates) :
         ShareId(i, j) => TimesInProof(candidates[i].id) <= 1

\* two effect steps on one ingredient were created in one tick with one id and different
\* confidences, their premises are met, and the proof holds the id once
C30_Witness ==
  /\ pc = "Validated"
  /\ \E i \in 1..Len(candidates) : \E j \in 1..Len(candidates) :
       /\ ShareId(i, j)
       /\ candidates[i].rule = "effect_verification"
       /\ candidates[i].confidence # candidates[j].confidence
       /\ TimesInProof(candidates[i].id) = 1

\* the same for two constraint steps of one type
SharedConstraintIdOnceInProof ==
  /\ pc = "Validated"
  /\ \E i \in 1..Len(candidates) : \E j \in 1..Len(candidates) :
       /\ ShareId(i, j)
       /\ candidates[i].rule = "constraint_verification"
       /\ TimesInProof(candidates[i].id) = 1

(***************************************************************************)
(* Properties of CognitiveAccountingSystem                                 *)
(***************************************************************************)
\* C6: after any number of updateCognitiveState calls, with contexts of any number of
\* active ingredients and user constraints, the attentional focus holds at most
\* attentionCapacity (7) items.
C6_AttentionalFocusWithinCapacity ==
  Len(cognitiveState.attentionalFocus) <= attentionCapacity

\* a second update whose context offered nine focus candidates, and the focus is full
C6_Witness ==
  /\ updates = 2
  /\ Len(cognitiveState.attentionalFocus) = attentionCapacity
  /\ cognitiveState.uncertaintyLevels[<<"c","o","m","p","l","e","x","i","t","y">>] =
       Q(MaxActiveIngredients * MaxUserConstraints, 100)

(***************************************************************************)
(* Properties of HypergraphIntegrationEngine                               *)
(***************************************************************************)
\* the vessel data list ingredient b among those ingredient a is to avoid
AvoidDeclared(vesselData, a, b) ==
  \E i \in 1..Len(vesselData.ingredients) :
     /\ vesselData.ingredients[i].id = a
     /\ contains(vesselData.ingredients[i].compatibility.avoid, b)

WarnsAgainstCombination(recommendations) ==
  contains(recommendations,
           "Consider avoiding this ingredient combination due to potential antagonistic effects")

\* a compatibility query on the proof whose graph has just been integrated with
\* vessel data that tell the first ingredient of the query to avoid the second
QueryAfterAvoidIntegration ==
  /\ returned # Null
  /\ returned.op = "integrateWithVesselHypergraph"
  /\ returned.error = NoError
  /\ returned'.op = "queryProofSupport"
  /\ returned'.proofId = returned.proofId
  /\ AvoidDeclared(returned.args, returned'.args.ingredient1, returned'.args.ingredient2)

\* C8: once a proof's graph has been created and integrated with vessel data in which
\* ingredient A is to avoid ingredient B, the ingredient_compatibility query on that
\* proof for A and B returns a recommendation that warns against the combination.
C8_AvoidRelationYieldsWarning ==
  [][QueryAfterAvoidIntegration =>
       /\ returned'.error = NoError
       /\ WarnsAgainstCombination(returned'.value.recommendations)]_vars

\* every hyperedge of the graph has at least two members, each the id of a node of it
HyperedgesReferenceNodes(graph) ==
  \A i \in 1..Len(graph.hyperedges) :
     /\ Len(graph.hyperedges[i].nodes) >= 2
     /\ \A k \in 1..Len(graph.hyperedges[i].nodes) :
          \E n \in 1..Len(graph.nodes) : graph.nodes[n].id = graph.hyperedges[i].nodes[k]

\* C9: in the graph createProofHypergraph returns and in the combined graph
\* integrateWithVesselHypergraph returns, every hyperedge has at least two members and
\* every member is the id of a node of the same graph.
C9_HyperedgesReferenceExistingNodes ==
  (returned # Null /\ returned.error = NoError) =>
     /\ returned.op = "createProofHypergraph" => HyperedgesReferenceNodes(returned.value)
     /\ returned.op = "integrateWithVesselHypergraph" =>
          HyperedgesReferenceNodes(returned.value.combinedGraph)

\* the steps of the given type among the steps a createProofHypergraph call was given
StepsOfType(type) == SelectSeq(returned.args.steps, LAMBDA s : s.type = type)

\* criticalPaths holds a path from startId to endId with as many nodes as path has
ListsPathLike(criticalPaths, startId, endId, path) ==
  \E k \in 1..Len(criticalPaths) :
     /\ Len(criticalPaths[k]) = Len(path)
     /\ criticalPaths[k][1] = startId
     /\ criticalPaths[k][Len(path)] = endId

\* C25: the analysis of the hypergraph createProofHypergraph builds lists in
\* criticalPaths, for every assumption step and every conclusion step whose nodes are
\* connected through hyperedges, a path of the fewest hops from the node of the one to
\* the node of the other; criticalPaths is not empty for a proof whose conclusion
\* names the assumption among its premises.
C25_CriticalPathsJoinAssumptionsToConclusions ==
  (returned # Null /\ returned.op = "createProofHypergraph") =>
     \A a \in 1..Len(StepsOfType("assumption")) :
        \A c \in 1..Len(StepsOfType("conclusion")) :
           LET startId == StepsOfType("assumption")[a].id
               endId == StepsOfType("conclusion")[c].id
               path == findShortestPath(returned.value.nodes, returned.value.hyperedges,
                                        startId, endId)
           IN  Len(path) > 0 =>
                  ListsPathLike(returned.value.analysis.criticalPaths, startId, endId, path)

\* no node of a hypergraph made from the steps of a proof is picked as the start or as
\* the end of a path: criticalPaths is empty
CriticalPathsEmpty ==
  (returned # Null /\ returned.op = "createProofHypergraph") =>
     returned.value.analysis.criticalPaths = <<>>

\* the number of hyperedges the node id is a member of
Memberships(hyperedges, id) ==
  Cardinality({ k \in 1..Len(hyperedges) : contains(hyperedges[k].nodes, id) })

\* the nodes made from the steps: the first Len(steps) nodes of the graph
StepNodes == SubSeq(returned.value.nodes, 1, Len(returned.args.steps))

\* C26: the vulnerabilities of the analysis hold the id of a node exactly when the
\* confidence of the node is below 0.5 (0 included) or the node is a member of
\* exactly one hyperedge; stated for the nodes made from steps, which have a
\* confidence.
C26_VulnerableIffLowConfidenceOrSingleEdge ==
  (returned # Null /\ returned.op = "createProofHypergraph") =>
     \A i \in 1..Len(StepNodes) :
        contains(returned.value.analysis.vulnerabilities, StepNodes[i].id)
          <=> \/ Lt(StepNodes[i].properties.confidence, Dec(500))
              \/ Memberships(returned.value.hyperedges, StepNodes[i].id) = 1

\* the same with a confidence of 0 read as no confidence
VulnerableIffLowNonZeroConfidenceOrSingleEdge ==
  (returned # Null /\ returned.op = "createProofHypergraph") =>
     \A i \in 1..Len(StepNodes) :
        contains(returned.value.analysis.vulnerabilities, StepNodes[i].id)
          <=> \/ /\ Lt(StepNodes[i].properties.confidence, Dec(500))
                 /\ StepNodes[i].properties.confidence # Num(0)
              \/ Memberships(returned.value.hyperedges, StepNodes[i].id) = 1

(***************************************************************************)
(* Properties of FormalLogicEngine                                         *)
(***************************************************************************)
RECURSIVE Replay(_, _)
\* the goals left after the tactics have been applied, one after the other, to all goals
Replay(tactics, goals) ==
  IF tactics = <<>> THEN goals
  ELSE Replay(Tail(tactics), flatMapApply(Head(tactics), goals).value)

FixedSkeleton ==
  <<[name |-> "intros"],
    [name |-> "apply", target |-> "safety_verification",
     arguments |-> <<initializeAxioms.safetyConstraints[1].statement>>],
    [name |-> "apply", target |-> "penetration_model",
     arguments |-> <<initializeAxioms.penetrationLaw.statement>>],
    [name |-> "apply", target |-> "compatibility_check",
     arguments |-> <<initializeAxioms.compatibilityRules[1].statement>>],
    [name |-> "simpl"],
    [name |-> "assumption"]>>

\* C12: generateFormalProof, for a request of the declared type, returns a derivation
\* whose tactics are intros, apply (safety axiom), apply (penetration axiom), apply
\* (compatibility axiom), simpl, assumption, in that order, whose qed is true, and
\* whose tactics, applied with applyTactic from the main theorem of the request,
\* leave no goal.
C12_GeneratedProofIsClosedSkeleton ==
  (formalCall # Null /\ formalCall.op = "generateFormalProof"
     /\ formalCall.args.targetEffectsType = "array") =>
     /\ ~formalCall.threw
     /\ formalCall.value.tactics = FixedSkeleton
     /\ formalCall.value.qed
     /\ Replay(formalCall.value.tactics, <<formulateMainTheorem(formalCall.args, now)>>) = <<>>

\* a derivation generated for a request with ingredients, a constraint and an effect
C12_Witness ==
  /\ formalCall # Null
  /\ formalCall.op = "generateFormalProof"
  /\ ~formalCall.threw
  /\ Len(formalCall.args.ingredients) = 2
  /\ Len(formalCall.args.constraints) = 1
  /\ Len(formalCall.args.targetEffects) = 1
  /\ Len(formalCall.value.assumptions) = 3

\* C13: applyTactic with intros returns one subgoal, with no hypothesis and with the
\* conclusion of the proposition as its statement; with assumption it returns no
\* subgoal; with a name that is none of intros, apply, unfold, simpl, assumption,
\* split, left and right it throws.
C13_IntrosFocusesAssumptionCloses ==
  (formalCall # Null /\ formalCall.op = "applyTactic") =>
     LET name == formalCall.args.tactic.name
         proposition == formalCall.args.proposition
     IN  /\ name = "intros" =>
              /\ ~formalCall.threw
              /\ Len(formalCall.value) = 1
              /\ formalCall.value[1].hypothesis = <<>>
              /\ formalCall.value[1].statement = proposition.conclusion
         /\ name = "assumption" => ~formalCall.threw /\ formalCall.value = <<>>
         /\ name \notin {"intros", "apply", "unfold", "simpl", "assumption", "split",
                         "left", "right"} =>
              formalCall.threw /\ formalCall.error = <<"Unknown tactic: ", name>>

\* intros applied to a main theorem that has hypotheses
C13_Witness ==
  /\ formalCall # Null
  /\ formalCall.op = "applyTactic"
  /\ formalCall.args.tactic.name = "intros"
  /\ Len(formalCall.args.proposition.hypothesis) >= 2
  /\ formalCall.args.proposition.statement.name = <<"F","o","r","m","u","l","a","t","i","o","n","V","a","l","i","d">>
  /\ formalCall.value[1].statement.name = <<"A","c","h","i","e","v","e","s","T","a","r","g","e","t","E","f","f","e","c","t","s">>

\* C14: validateProof returns, without throwing, valid = false and an error list with
\* a 'Tactic <name> failed' message for a derivation that holds a tactic of unknown
\* name, in particular for one generateFormalProof returned and to which such a
\* tactic has been added.
C14_UnknownTacticFailsValidation ==
  (/\ formalCall # Null
   /\ formalCall.op = "validateProof"
   /\ \E i \in 1..Len(formalCall.args.tactics) :
        formalCall.args.tactics[i].name \notin (TacticNames \ {"auto"})) =>
     /\ ~formalCall.threw
     /\ ~formalCall.value.valid
     /\ \E k \in 1..Len(formalCall.value.errors) :
          /\ formalCall.value.errors[k][1] = "Tactic "
          /\ formalCall.value.errors[k][3] = " failed: "

\* C23: applyTactic with apply, unfold, simpl, split, left or right returns, on any
\* proposition, exactly one subgoal, and that subgoal is the proposition.
C23_PlaceholderTacticsPassGoalThrough ==
  (/\ formalCall # Null
   /\ formalCall.op = "applyTactic"
   /\ formalCall.args.tactic.name \in {"apply", "unfold", "simpl", "split", "left", "right"}) =>
     /\ ~formalCall.threw
     /\ formalCall.value = <<formalCall.args.proposition>>

\* a validateProof call on a derivation for the main theorem of the request, with
\* tactics the engine knows
ValidatesGenerated ==
  /\ formalCall # Null
  /\ formalCall.op = "validateProof"
  /\ request.targetEffectsType = "array"
  /\ formalCall.args.proposition = formulateMainTheorem(request, now).id
  /\ \A i \in 1..Len(formalCall.args.tactics) :
       formalCall.args.tactics[i].name \in TacticNames \ {"auto"}

ReportedIncomplete ==
  \E k \in 1..Len(formalCall.value.errors) :
     formalCall.value.errors[k] = <<"Proof incomplete: unresolved goals remain">>

\* C24: validateProof reports 'Proof incomplete: unresolved goals remain', and with it
\* valid = false, exactly when the tactics of the derivation, replayed from its
\* theorem, leave a goal open and the derivation is not marked closed; a derivation
\* of a generated theorem with the tactics [intros] and qed = false is reported
\* incomplete, one with [intros, assumption] is reported valid.
C24_IncompleteExactlyWhenGoalsRemain ==
  ValidatesGenerated =>
     /\ ~formalCall.threw
     /\ ReportedIncomplete <=>
          /\ Len(Replay(formalCall.args.tactics, <<formulateMainTheorem(request, now)>>)) > 0
          /\ ~formalCall.args.qed
     /\ ReportedIncomplete => ~formalCall.value.valid

\* without a stored theorem the tactics are replayed on no goal: the only derivations
\* reported incomplete are those without tactics that are not marked closed
IncompleteOnlyWithoutTactics ==
  ValidatesGenerated =>
     (ReportedIncomplete <=> (formalCall.args.tactics = <<>> /\ ~formalCall.args.qed))

(***************************************************************************)
(* Properties of FormulationProofAssistant                                 *)
(***************************************************************************)
\* a verifyFormulation call was given a hypothesis and no ingredient
CalledWithoutIngredients ==
  /\ assistant # Null
  /\ assistant.calls > 0
  /\ assistant.request.hypothesis # <<>>
  /\ assistant.request.ingredients = <<>>

\* C28: verifyFormulation, given a request with a non-empty hypothesis and an empty
\* ingredient list, returns isValid = false with a warning and a proof with no steps.
C28_NoIngredientsGivesInvalidEmptyProof ==
  CalledWithoutIngredients =>
    /\ ~assistant.result.isValid
    /\ assistant.result.warnings # <<>>
    /\ assistant.result.proof.steps = <<>>

\* what the call returns instead: a proof of the assumption and the conclusion (and of a
\* step per target effect and constraint), every step of confidence > 0.5, so validity 1,
\* coverage of at least two of the three required types, isValid = true and no warning
NoIngredientsGivesValidProof ==
  CalledWithoutIngredients =>
    /\ assistant.result.isValid
    /\ assistant.result.warnings = <<>>
    /\ Len(assistant.result.proof.steps) =
         2 + Len(assistant.request.targetEffects) + Len(assistant.request.constraints)
    /\ assistant.result.proof.validity = Num(1)
    /\ Ge(assistant.result.proof.completeness, Q(2, 3))

(***************************************************************************)
(* Claims about orderStepsLogically                                        *)
(***************************************************************************)
\* the value the loop returns is the value of the function
OrderedAsFunction ==
  ordering.at = "returned" => ordering.ordered = orderStepsLogically(ordering.steps)

\* the call returns
OrderingTerminates == <>(ordering.at = "returned")

\* each pass of the loop that is followed by another has processed a new id
OrderingProgress ==
  [][(ordering.at = "while" /\ ordering'.at = "while" /\ ordering'.added)
       => Cardinality(ordering'.processed) > Cardinality(ordering.processed)]_vars

\* step is one of the steps of the list
Holds(list, step) == \E j \in 1..Len(list) : list[j] = step

\* the id of step is the id of one of the steps of the list
HoldsId(list, step) == \E j \in 1..Len(list) : list[j].id = step.id

\* every premise of step is the id of a step of the list or occurs in a statement
SatisfiedBy(step, list) ==
  \A k \in 1..Len(step.premises) : SatisfiedBefore(step.premises[k], list, Len(list))

\* C17: when orderStepsLogically has returned, no step of the list it was given that
\* is not of type conclusion and is not in the returned list has all of its premises
\* satisfied (as an id or inside a statement) by the steps of the returned list.
C17_OrderingResultIsFixpoint ==
  ordering.at = "returned" =>
     \A i \in 1..Len(ordering.steps) :
        (ordering.steps[i].type # "conclusion" /\ ~Holds(ordering.ordered, ordering.steps[i]))
           => ~SatisfiedBy(ordering.steps[i], ordering.ordered)

\* the same for lists in which no two steps have the same id
FixpointForDistinctIds ==
  ordering.at = "returned" =>
     \A i \in 1..Len(ordering.steps) :
        (ordering.steps[i].type # "conclusion" /\ ~HoldsId(ordering.ordered, ordering.steps[i]))
           => ~SatisfiedBy(ordering.steps[i], ordering.ordered)

(***************************************************************************)
(* Claims about modelSkinPenetration                                       *)
(***************************************************************************)
FailedEntry(entry) == entry.penetrationDepth = Num(0) /\ entry.confidence = Num(0)

PenetratingEntry(entry) == entry.confidence = Dec(800) /\ Gt(entry.penetrationDepth, Num(0))

\* C22: modelSkinPenetration returns one entry for each ingredient in the order of
\* the list; each entry is what the ingredient gets when it is modelled alone; an
\* ingredient with concentration 0 gets {penetrationDepth: 0, confidence: 0}, and
\* every entry that is not this failure entry has confidence 0.8 and a depth > 0.
C22_PenetrationFailureStaysLocal ==
  penetration.at = "returned" =>
     /\ Len(penetration.results) = Len(penetration.ingredients)
     /\ \A i \in 1..Len(penetration.ingredients) :
          LET ingredient == penetration.ingredients[i]
              entry == penetration.results[i]
          IN  /\ entry.ingredientId = ingredient.id
              /\ entry = modelSkinPenetration(<<ingredient>>)[1]
              /\ FailedEntry(entry) \/ PenetratingEntry(entry)
              /\ ingredient.concentration = Num(0) => FailedEntry(entry)

\* a batch of three in which the ingredient in the middle fails and the others do not
C22_Witness ==
  /\ penetration.at = "returned"
  /\ Len(penetration.results) = 3
  /\ PenetratingEntry(penetration.results[1])
  /\ penetration.ingredients[2].concentration = Num(0)
  /\ FailedEntry(penetration.results[2])
  /\ PenetratingEntry(penetration.results[3])

(***************************************************************************)
(* Properties of the relevance weights over a long run of updates          *)
(***************************************************************************)
WeightKeys == DOMAIN boostedBillionths(<<>>, [currentGoal |-> <<>>,
                                               activeIngredients |-> << <<"r","1">>, <<"r","2">> >>], 2)

Stored(k) == weightRun # Null /\ k \in DOMAIN weightRun.relevanceWeights

RECURSIVE TimesActive(_, _)
\* how many times k is listed among the active ingredients
TimesActive(k, ings) ==
  IF ings = <<>> THEN 0
  ELSE (IF Head(ings) = k THEN 1 ELSE 0) + TimesActive(k, Tail(ings))

\* nine tenths of x billionths
NineTenths(x) == x - (x + 9) \div 10

\* what the weight of k is to become in a call with this context, before pruning
Due(k, w, context) ==
  NineTenths((IF k \in DOMAIN w THEN w[k] ELSE 0)
             + TimesActive(k, context.activeIngredients)
               * (IF includes(toLowerCase(context.currentGoal), toLowerCase(k))
                  THEN NamedInGoal ELSE NotNamedInGoal))

\* every stored weight is at least 0.01
StoredWeightsAtLeastMin ==
  weightRun # Null =>
    \A k \in DOMAIN weightRun.relevanceWeights : weightRun.relevanceWeights[k] >= PruneBelow

\* a call adds 0.2 per listing of an active ingredient named in the goal and 0.1 per
\* listing of another, multiplies by 0.9 and deletes what falls below 0.01
UpdateFollowsRule ==
  updates' = updates + 1 =>
    \A k \in WeightKeys \cup DOMAIN weightRun'.relevanceWeights :
      LET due == Due(k, weightRun.relevanceWeights, weightRun'.context)
          touched == k \in DOMAIN weightRun.relevanceWeights
                     \/ TimesActive(k, weightRun'.context.activeIngredients) > 0
      IN  IF touched /\ due >= PruneBelow
          THEN k \in DOMAIN weightRun'.relevanceWeights /\ weightRun'.relevanceWeights[k] = due
          ELSE k \notin DOMAIN weightRun'.relevanceWeights

\* C27: updateCognitiveState adds 0.2 to the weight of each active ingredient whose id
\* occurs in the goal text whatever its case and 0.1 to each other active ingredient,
\* then multiplies every stored weight by 0.9 and deletes the entries below 0.01; after
\* any sequence of calls every stored weight is at least 0.01; and once no ingredient is
\* active any more, a stored key is removed after finitely many further calls.
C27_WeightsDecayAndArePruned ==
  /\ []StoredWeightsAtLeastMin
  /\ [][UpdateFollowsRule]_vars
  /\ \A k \in WeightKeys : (Stored(k) /\ updates >= MaxActiveUpdates) ~> ~Stored(k)

\* r1 is no longer active and has decayed to a weight
\* that the next call deletes, r2 having been deleted before it
C27_Witness ==
  /\ updates > MaxActiveUpdates
  /\ weightRun.context.activeIngredients = <<>>
  /\ Stored(<<"r","1">>)
  /\ ~Stored(<<"r","2">>)
  /\ NineTenths(weightRun.relevanceWeights[<<"r","1">>]) < PruneBelow

(***************************************************************************)
(* Claims about TensorOperationsEngine.executeOperation.                   *)
(***************************************************************************)
Registered == operationName \in DOMAIN operations

ArityMatches == Registered /\ Len(inputs) = Len(operations[operationName].inputFields)

ShapesMatch ==
  /\ ArityMatches
  /\ operationName = "tensor_add" => inputs[1].dimensions = inputs[2].dimensions

UnknownOperation == Throws(<<"Unknown tensor operation: ", operationName>>)

ArityMismatch ==
  Throws(<<"Operation ", operationName, " expects ",
           ToString(Len(operations[operationName].inputFields)), " inputs, got ",
           ToString(Len(inputs))>>)

ShapeMismatch == Throws(<<"Tensor dimensions must match for addition">>)

InvalidResult == Throws(<<"Operation ", operationName, " produced invalid result">>)

\* every element of the field is a number for which bound(x) holds, and there is one
AllElements(field, bound(_)) ==
  /\ Len(field.dimensions) > 0
  /\ Len(field.data) > 0
  /\ \A k \in 1..Len(field.data) : ~isNaN(field.data[k]) /\ bound(field.data[k])

NonNegative(x) == x[1] >= 0

Positive(x) == x[1] > 0

Normalized(x) == x[1] >= 0 /\ x[1] <= x[2]

\* what the registry promises of a field the operation returns
SatisfiesValidator(field) ==
  CASE operationName \in {"diffusion", "layer_transport", "ingredient_interaction"} ->
         AllElements(field, NonNegative)
    [] operationName \in {"penetration_depth", "barrier_function"} ->
         AllElements(field, Positive)
    [] operationName = "effectiveness_calculation" -> AllElements(field, Normalized)
    [] operationName = "tensor_add" -> AllElements(field, LAMBDA x : TRUE)

\* C10: executeOperation throws, returning no field, for an unregistered name
\* (UnknownOperation), else for a number of inputs that differs from the operation's
\* input roles (ArityMismatch), else for tensor_add on fields of different dimensions
\* (ShapeMismatch), else for a computed field its validator rejects (InvalidResult);
\* otherwise it returns the computed field, which therefore satisfies the validator.
C10_ExecuteOperationFailsInOrder ==
  outcome # Null =>
    /\ ~Registered => outcome = UnknownOperation
    /\ Registered /\ ~ArityMatches => outcome = ArityMismatch
    /\ ArityMatches /\ ~ShapesMatch => outcome = ShapeMismatch
    /\ ShapesMatch =>
         LET field == operate(operationName, inputs).field
         IN  IF SatisfiesValidator(field)
             THEN outcome = Returns(field)
             ELSE outcome = InvalidResult
    /\ outcome.threw => outcome.field = Null
    /\ ~outcome.threw => SatisfiesValidator(outcome.field)

\* layer_transport computed a negative flux from three well-formed fields, and the call
\* threw instead of returning it
C10_Witness ==
  /\ outcome # Null
  /\ operationName = "layer_transport"
  /\ ShapesMatch
  /\ \E k \in 1..Len(operate(operationName, inputs).field.data) :
       Lt(operate(operationName, inputs).field.data[k], Num(0))
  /\ outcome = InvalidResult

\* a diffusion call on a 1D concentration field returns
DiffusionReturns1D ==
  /\ operationName = "diffusion"
  /\ outcome = Null
  /\ outcome' # Null
  /\ ~outcome'.threw
  /\ Len(inputs[1].dimensions) = 1

\* C11: one diffusion step on a 1D field returns a field whose first and last
\* elements are those of the input and whose every interior element i is
\* c[i] + D * dt * (c[i+1] - 2 * c[i] + c[i-1]) over the values c of the input as it
\* was given; the input fields are as they were.
C11_DiffusionUpdatesInteriorFromInput ==
  [][DiffusionReturns1D =>
       LET c == inputs[1].data
           new == outcome'.field.data
           factor == Times(inputs[2].data[1], inputs[3].data[1])
       IN  /\ inputs' = inputs
           /\ Len(new) = Len(c)
           /\ new[1] = c[1]
           /\ new[Len(c)] = c[Len(c)]
           /\ \A i \in 2..(Len(c) - 1) :
                new[i] = Plus(c[i], Times(factor,
                                          Plus(Minus(c[i + 1], Times(Num(2), c[i])),
                                               c[i - 1])))]_vars

\* a diffusion step on a field of length 5 has returned a field that differs from it
C11_Witness ==
  /\ operationName = "diffusion"
  /\ outcome # Null
  /\ ~outcome.threw
  /\ inputs[1].dimensions = <<5>>
  /\ outcome.field.data # inputs[1].data
  /\ outcome.field.data[1] = inputs[1].data[1]
  /\ outcome.field.data[5] = inputs[1].data[5]

(***************************************************************************)
(* Properties of calls that share one engine                               *)
(***************************************************************************)
\* an identifier without the clock reading that ends it
StripId(id) ==
  LET d == TrailingDigits(id)
  IN  IF d # <<>> /\ Len(id) > Len(d) /\ id[Len(id) - Len(d)] = "_"
      THEN SubSeq(id, 1, Len(id) - Len(d)) ELSE id

StripStep(step) ==
  [step EXCEPT !.id = StripId(@),
               !.premises = Array([i \in 1..Len(@) |-> StripId(@[i])]),
               !.evidence = Array([i \in 1..Len(@) |-> [@[i] EXCEPT !.id = StripId(@)]])]

\* a VerificationResult with the clock readings taken out of its identifiers
StripResult(r) ==
  [r EXCEPT !.proof.id = StripId(@),
            !.proof.steps = Array([i \in 1..Len(@) |-> StripStep(@[i])])]

\* what one call returns on a new engine while the clock stands at t
verifyAlone(req, t) ==
  IF validateRequest(req) # NoError
  THEN createFailureResult(req.hypothesis, validateRequest(req), t)
  ELSE IF req.targetEffectsType # "array"
  THEN createFailureResult(req.hypothesis, "request.targetEffects is not iterable", t)
  ELSE IF req.hypothesisType # "string"
  THEN createFailureResult(req.hypothesis, "context.currentGoal.toLowerCase is not a function", t)
  ELSE LET relevanceAnalysis == realizeRelevance(generateCandidateSteps(req, t),
                                                 createRelevanceContext(req),
                                                 initializeCognitiveState)
           proof == buildFormalProof(relevanceAnalysis.relevantSteps, req, t)
           verdict == validateProofSoundness(proof)
           recommendations == generateRecommendations(proof, req)
       IN  [isValid |-> verdict.isValid,
            confidence |-> verdict.confidence,
            proof |-> proof,
            warnings |-> verdict.warnings,
            recommendations |-> recommendations.suggestions,
            alternativeFormulations |-> recommendations.alternatives]

CallEnded(c) == verifications # Null /\ verifications[c].pc \in Ended

\* the result of call c is the one its request gets on a new engine
AsAlone(c) ==
  StripResult(verifications[c].result)
    = StripResult(verifyAlone(verifications[c].request, StartTime))

\* C29: the result of a call, its identifiers taken without their clock readings, is a
\* function of the request alone, whatever calls ended before it on the engine and
\* however another call is interleaved with it; and no call changes the cognitive state.
C29_ResultIsFunctionOfRequestAlone ==
  verifications # Null =>
    /\ cognitiveState = initializeCognitiveState
    /\ \A c \in 1..NumCalls : CallEnded(c) => AsAlone(c)

\* the candidates of the request get pairwise distinct identifiers whatever the clock
NoSharedIds(req) ==
  LET ids == [i \in 1..Len(generateCandidateSteps(req, StartTime)) |->
                StripId(generateCandidateSteps(req, StartTime)[i].id)]
  IN  \A i \in DOMAIN ids : \A j \in DOMAIN ids : i # j => ids[i] # ids[j]

\* the clock moved on between the candidates of call c that share an identifier
TickBetweenShared(c) ==
  \E i \in DOMAIN verifications[c].candidates : \E j \in DOMAIN verifications[c].candidates :
    /\ StripId(verifications[c].candidates[i].id) = StripId(verifications[c].candidates[j].id)
    /\ verifications[c].candidates[i].id # verifications[c].candidates[j].id

\* what holds: the result is that of the request alone unless the clock moves on between
\* two candidates that share an identifier, whatever the other call does
ResultIsFunctionOfRequestAndSharedIds ==
  verifications # Null =>
    /\ cognitiveState = initializeCognitiveState
    /\ \A c \in 1..NumCalls :
         CallEnded(c) =>
           /\ ~TickBetweenShared(c) => AsAlone(c)
           /\ NoSharedIds(verifications[c].request) => AsAlone(c)

====
